---- MODULE Spec2Model ----
(***************************************************************************)
(* Model of streamlinear: the Linear action dispatcher and resolution      *)
(* layer of mcp/src/linear-core.ts, driven by the persistent protocol       *)
(* server (mcp/src/index.ts) or by one command-line invocation.             *)
(*                                                                           *)
(* JavaScript strings that the code inspects (regular expressions, case     *)
(* conversion, substring search, template output) are sequences of          *)
(* one-character strings.  Opaque identifiers issued by the service          *)
(* (team ids, state ids, user ids) are plain strings.                        *)
(***************************************************************************)
EXTENDS Integers, Sequences, FiniteSets, TLC

VARIABLES
    ridIn,          \* resolveId harness: the string handed to resolveId
    ridOut,         \* resolveId harness: results of successive applications
    gqToken,        \* graphql harness: process.env.LINEAR_API_TOKEN
    gqCall,         \* graphql harness: the call in progress
    gqWire,         \* graphql harness: the requests fetch has sent
    gqLog,          \* graphql harness: how each finished call ended
    pnIn,           \* priorityName harness: the value handed to priorityName
    pnOut,          \* priorityName harness: <<>> or <<the label returned>>
    tkIn,           \* command-line token harness: the flags and the environment
    tkOut,          \* command-line token harness: how far main has come
    rsIn,           \* resolveState harness: cached teams, team id and state name
    rsOut,          \* resolveState harness: <<>> or <<result of resolveState>>
    mode,           \* "server" (index.ts), "cli" (cli.ts) or "off" (harness only)
    cachedViewer,   \* linear-core.ts cachedViewer: <<>> for null, else <<viewer>>
    cachedTeams,    \* linear-core.ts cachedTeams: <<>> for null, else <<teams>>
    remote,         \* the Linear service: data versions, the issue, creations
    tasks,          \* task 0: server startup; tasks 1..MaxTasks: action requests
    accStats        \* per accessor: fetches that returned, values returned

ridVars == <<ridIn, ridOut>>
rsVars == <<rsIn, rsOut>>
gqVars == <<gqToken, gqCall, gqWire, gqLog>>
pnVars == <<pnIn, pnOut>>
tkVars == <<tkIn, tkOut>>
procVars == <<mode, cachedViewer, cachedTeams, remote, tasks, accStats>>
vars == <<pnIn, pnOut, tkIn, tkOut, gqToken, gqCall, gqWire, gqLog, ridIn, ridOut, rsIn, rsOut, mode, cachedViewer, cachedTeams, remote, tasks,
          accStats>>

-----------------------------------------------------------------------------
(* Characters and JavaScript string primitives                              *)

Uppers == <<"A","B","C","D","E","F","G","H","I","J","K","L","M",
            "N","O","P","Q","R","S","T","U","V","W","X","Y","Z">>
Lowers == <<"a","b","c","d","e","f","g","h","i","j","k","l","m",
            "n","o","p","q","r","s","t","u","v","w","x","y","z">>
Digits == {"0","1","2","3","4","5","6","7","8","9"}

Range(f) == {f[i] : i \in DOMAIN f}

UpperSet == Range(Uppers)
LowerSet == Range(Lowers)
UpperOf == [c \in LowerSet |-> Uppers[CHOOSE i \in 1..26 : Lowers[i] = c]]
LowerOf == [c \in UpperSet |-> Lowers[CHOOSE i \in 1..26 : Uppers[i] = c]]

IsUpperC(c) == c \in UpperSet
IsLowerC(c) == c \in LowerSet
IsLetterC(c) == IsUpperC(c) \/ IsLowerC(c)
IsDigitC(c) == c \in Digits
NotSlashC(c) == c # "/"

ToUpperC(c) == IF IsLowerC(c) THEN UpperOf[c] ELSE c
ToLowerC(c) == IF IsUpperC(c) THEN LowerOf[c] ELSE c

\* String.prototype.toUpperCase / toLowerCase on ASCII text
toUpperCase(s) == [i \in 1..Len(s) |-> ToUpperC(s[i])]
toLowerCase(s) == [i \in 1..Len(s) |-> ToLowerC(s[i])]

\* s has the text lit at position p (1-based); ci: compared case-insensitively
LitAt(s, p, lit, ci) ==
    /\ p >= 1
    /\ p + Len(lit) - 1 <= Len(s)
    /\ \A k \in 1..Len(lit) :
          IF ci THEN ToLowerC(s[p + k - 1]) = ToLowerC(lit[k])
                ELSE s[p + k - 1] = lit[k]

\* String.prototype.includes
includes(s, sub) == \E p \in 1..(Len(s) + 1) : LitAt(s, p, sub, FALSE)

\* Last index of the maximal run of characters satisfying P that starts at p
\* (p - 1 when the run is empty): what a greedy P+ consumes.
RunEnd(s, p, P(_)) ==
    CHOOSE q \in (p - 1)..Len(s) :
        /\ \A k \in p..q : P(s[k])
        /\ (q = Len(s) \/ ~P(s[q + 1]))

-----------------------------------------------------------------------------
(* resolveId: linear-core.ts 36-46                                          *)

HostLit == <<"l","i","n","e","a","r",".","a","p","p","/">>
IssueLit == <<"/","i","s","s","u","e","/">>

\* /linear\.app\/[^/]+\/issue\/([A-Z]+-\d+)/i attempted at start position p:
\* <<first, last>> of capture group 1, or <<0, 0>> when there is no match at p.
\* Each quantified part is followed by a character outside its class, so the
\* only run that can succeed is the maximal one.
UrlMatchAt(s, p) ==
    IF ~LitAt(s, p, HostLit, TRUE) THEN <<0, 0>>
    ELSE LET a == p + Len(HostLit)
             b == RunEnd(s, a, NotSlashC)
         IN IF b < a \/ ~LitAt(s, b + 1, IssueLit, TRUE) THEN <<0, 0>>
            ELSE LET d == b + 1 + Len(IssueLit)
                     e == RunEnd(s, d, IsLetterC)
                 IN IF e < d \/ ~LitAt(s, e + 1, <<"-">>, FALSE) THEN <<0, 0>>
                    ELSE LET g == RunEnd(s, e + 2, IsDigitC)
                         IN IF g < e + 2 THEN <<0, 0>> ELSE <<d, g>>

\* input.match(...): the leftmost start position that matches
UrlMatches(s) == {p \in 1..Len(s) : UrlMatchAt(s, p) # <<0, 0>>}
UrlCapture(s) ==
    LET p == CHOOSE q \in UrlMatches(s) : \A r \in UrlMatches(s) : q <= r
        m == UrlMatchAt(s, p)
    IN SubSeq(s, m[1], m[2])

\* /^[A-Z]+-\d+$/i.test(input)
IsShortId(s) ==
    LET e == RunEnd(s, 1, IsLetterC)
    IN /\ e >= 1
       /\ LitAt(s, e + 1, <<"-">>, FALSE)
       /\ LET g == RunEnd(s, e + 2, IsDigitC)
          IN g >= e + 2 /\ g = Len(s)

resolveIdNoUpper(input) ==
    IF UrlMatches(input) # {} THEN UrlCapture(input)
    ELSE input

resolveIdUpperAll(input) ==
    IF UrlMatches(input) # {} THEN UrlCapture(input)
    ELSE toUpperCase(input)

resolveId(input) ==
    IF UrlMatches(input) # {} THEN UrlCapture(input)
    ELSE IF IsShortId(input) THEN toUpperCase(input)
    ELSE input

-----------------------------------------------------------------------------
(* resolveState and resolveTeam: linear-core.ts 110-154                     *)

\* JavaScript null where an identifier string is expected
NULL == "<null>"

\* Array.prototype.find: index of the first element satisfying P, 0 if none
FindIdx(arr, P(_)) ==
    IF \E i \in 1..Len(arr) : P(arr[i])
    THEN CHOOSE i \in 1..Len(arr) : P(arr[i]) /\ \A j \in 1..(i - 1) : ~P(arr[j])
    ELSE 0

\* The alias table, in the insertion order Object.entries walks it
Aliases == <<
    [canonical |-> <<"d","o","n","e">>,
     alts |-> { <<"d","o","n","e">>, <<"c","o","m","p","l","e","t","e">>,
                <<"c","o","m","p","l","e","t","e","d">>,
                <<"f","i","n","i","s","h","e","d">> }],
    [canonical |-> <<"i","n"," ","p","r","o","g","r","e","s","s">>,
     alts |-> { <<"i","n"," ","p","r","o","g","r","e","s","s">>,
                <<"s","t","a","r","t","e","d">>, <<"d","o","i","n","g">>,
                <<"w","i","p">>, <<"i","n"," ","p","r","o","g">> }],
    [canonical |-> <<"t","o","d","o">>,
     alts |-> { <<"t","o","d","o">>, <<"t","o"," ","d","o">>,
                <<"b","a","c","k","l","o","g">>, <<"o","p","e","n">> }],
    [canonical |-> <<"c","a","n","c","e","l","e","d">>,
     alts |-> { <<"c","a","n","c","e","l","e","d">>,
                <<"c","a","n","c","e","l","l","e","d">>,
                <<"c","l","o","s","e","d">>, <<"w","o","n","t","f","i","x">> }] >>

\* The alias loop from bucket b on: index of the state it returns, 0 if none
RECURSIVE AliasMatch(_, _, _)
AliasMatch(states, lower, b) ==
    IF b > Len(Aliases) THEN 0
    ELSE IF lower \in Aliases[b].alts
         THEN LET canonical == Aliases[b].canonical
                  HasCanonical(st) == includes(toLowerCase(st.name), canonical)
                  m == FindIdx(states, HasCanonical)
              IN IF m # 0 THEN m ELSE AliasMatch(states, lower, b + 1)
         ELSE AliasMatch(states, lower, b + 1)

\* The three lookups of resolveState over one team's states: the index of the
\* state whose id is returned and the number of the return statement taken
\* (1 exact, 2 partial, 3 alias; 0: the final return null).
StateMatchPartialFirst(states, stateName) ==
    LET lower == toLowerCase(stateName)
        Exact(st) == toLowerCase(st.name) = lower
        Partial(st) == includes(toLowerCase(st.name), lower)
        m1 == FindIdx(states, Exact)
        m2 == FindIdx(states, Partial)
        m3 == AliasMatch(states, lower, 1)
    IN IF m2 # 0 THEN [idx |-> m2, tier |-> 2]
       ELSE IF m1 # 0 THEN [idx |-> m1, tier |-> 1]
       ELSE IF m3 # 0 THEN [idx |-> m3, tier |-> 3]
       ELSE [idx |-> 0, tier |-> 0]

StateMatchNoAlias(states, stateName) ==
    LET lower == toLowerCase(stateName)
        Exact(st) == toLowerCase(st.name) = lower
        Partial(st) == includes(toLowerCase(st.name), lower)
        m1 == FindIdx(states, Exact)
        m2 == FindIdx(states, Partial)
    IN IF m1 # 0 THEN [idx |-> m1, tier |-> 1]
       ELSE IF m2 # 0 THEN [idx |-> m2, tier |-> 2]
       ELSE [idx |-> 0, tier |-> 0]

StateMatch(states, stateName) ==
    LET lower == toLowerCase(stateName)
        Exact(st) == toLowerCase(st.name) = lower
        Partial(st) == includes(toLowerCase(st.name), lower)
        m1 == FindIdx(states, Exact)
        m2 == FindIdx(states, Partial)
        m3 == AliasMatch(states, lower, 1)
    IN IF m1 # 0 THEN [idx |-> m1, tier |-> 1]
       ELSE IF m2 # 0 THEN [idx |-> m2, tier |-> 2]
       ELSE IF m3 # 0 THEN [idx |-> m3, tier |-> 3]
       ELSE [idx |-> 0, tier |-> 0]

\* resolveState once getTeams has returned teams: a state id or NULL
resolveState(teams, teamId, stateName) ==
    LET IsTeam(t) == t.id = teamId
        ti == FindIdx(teams, IsTeam)
    IN IF ti = 0 THEN NULL
       ELSE LET states == teams[ti].states
                m == StateMatch(states, stateName)
            IN IF m.idx = 0 THEN NULL ELSE states[m.idx].id

\* resolveTeam once getTeams has returned teams: index of the team, 0 for null
\* A team lookup that falls back to the first team
resolveTeamOrFirst(teams, input) ==
    LET lower == toLowerCase(input)
        KeyOrName(t) == toLowerCase(t.key) = lower \/ toLowerCase(t.name) = lower
    IN IF FindIdx(teams, KeyOrName) # 0 THEN FindIdx(teams, KeyOrName) ELSE 1

resolveTeam(teams, input) ==
    LET lower == toLowerCase(input)
        KeyOrName(t) == toLowerCase(t.key) = lower \/ toLowerCase(t.name) = lower
    IN FindIdx(teams, KeyOrName)

-----------------------------------------------------------------------------
(* JavaScript values of request fields                                      *)

Undef == [tag |-> "undefined"]
Null == [tag |-> "null"]
Str(s) == [tag |-> "string", s |-> s]
Num(n) == [tag |-> "number", n |-> n]
Obj(o) == [tag |-> "object", o |-> o]
Arr(a) == [tag |-> "array", a |-> a]
Id(x) == [tag |-> "id", id |-> x]
NaN == [tag |-> "nan"]

\* ToBoolean: what if (v) and !v test
Truthy(v) ==
    CASE v.tag = "undefined" -> FALSE
      [] v.tag = "null" -> FALSE
      [] v.tag = "string" -> v.s # <<>>
      [] v.tag = "number" -> v.n # 0
      [] OTHER -> TRUE

\* JSON.stringify of the variables of a request (linear-core.ts 23): a key
\* whose value is undefined is left out, NaN is written as null
JSONstringify(o) ==
    [x \in {y \in DOMAIN o : o[y].tag # "undefined"} |->
        IF o[x].tag = "nan" THEN Null ELSE o[x]]

\* Array.prototype.join over texts
RECURSIVE Join(_, _)
Join(texts, sep) ==
    IF texts = <<>> THEN <<>>
    ELSE IF Len(texts) = 1 THEN texts[1]
    ELSE texts[1] \o sep \o Join(Tail(texts), sep)

Map(arr, F(_)) == [i \in 1..Len(arr) |-> F(arr[i])]

-----------------------------------------------------------------------------
(* The Linear service behind the GraphQL endpoint                           *)

MaxChurn == 1
MaxComments == 1
MaxCreated == 1

\* Workflow states a team may have: id, display name, category
StatePool == <<
    [id |-> "S1", name |-> <<"D","o","n","e">>, type |-> "completed"],
    [id |-> "S2", name |-> <<"I","n"," ","P","r","o","g","r","e","s","s">>,
     type |-> "started"],
    [id |-> "S3", name |-> <<"C","a","n","c","e","l","e","d">>, type |-> "canceled"],
    [id |-> "S4", name |-> <<"T","o","d","o">>, type |-> "unstarted"],
    [id |-> "S5", name |-> <<"N","o","t"," ","D","o","n","e">>, type |-> "unstarted"],
    [id |-> "S6", name |-> <<"W","I","P">>, type |-> "started"],
    [id |-> "S7", name |-> <<"I","n"," ","P","r","o","g">>, type |-> "started"] >>

ViewerEmail == <<"a","n","n","@","x",".","i","o">>
UserEmail == <<"b","o","b","@","x",".","i","o">>

\* viewer { id name email } after v edits of the profile
RemoteViewer(v) ==
    [id |-> "V1", name |-> <<"A","n","n">> \o [i \in 1..v |-> "n"], email |-> ViewerEmail]

BaseStates == <<StatePool[4], StatePool[2], StatePool[1], StatePool[3]>>
ExtraStates == <<StatePool[6], StatePool[5], StatePool[7]>>

\* teams { nodes { id key name states { nodes { id name type } } } } after v
\* edits of the first team's workflow
RemoteTeams(v) ==
    << [id |-> "T1", key |-> <<"E","N","G">>, name |-> <<"E","n","g","i","n","e","e","r","i","n","g">>,
        states |-> BaseStates \o [i \in 1..v |-> ExtraStates[((i - 1) % 3) + 1]]],
       [id |-> "T2", key |-> <<"O","P","S">>, name |-> <<"O","p","e","r","a","t","i","o","n","s">>,
        states |-> <<StatePool[4], StatePool[1]>>] >>

\* users { nodes { id email } }
RemoteUsers ==
    << [id |-> "V1", email |-> ViewerEmail], [id |-> "U2", email |-> UserEmail] >>

\* The one issue of the workspace: fixed identity, fields a mutation can set
IssueUuid == <<"9","f","3","c","-","u","u","i","d">>
IssueIdentifier == <<"E","N","G","-","1">>
IssueTeamId == "T1"

\* issue(id: $id): found by identifier or by uuid
RemoteIssueFound(id) == id = IssueIdentifier \/ id = IssueUuid

RemoteInit ==
    [teamsVer |-> 0, viewerVer |-> 0,
     issue |-> [stateId |-> Id("S4"), priority |-> Num(2), assigneeId |-> Id("U2")],
     created |-> 0, comments |-> <<>>]

\* issueUpdate(id, input): the fields present in input are set, the rest kept
ApplyIssueUpdate(issue, input) ==
    [stateId |-> IF "stateId" \in DOMAIN input THEN input["stateId"] ELSE issue.stateId,
     priority |-> IF "priority" \in DOMAIN input THEN input["priority"] ELSE issue.priority,
     assigneeId |-> IF "assigneeId" \in DOMAIN input THEN input["assigneeId"]
                    ELSE issue.assigneeId]

\* Number.prototype.toString of a natural number
RECURSIVE ToText(_)
ToText(n) ==
    IF n < 10 THEN <<<<"0","1","2","3","4","5","6","7","8","9">>[n + 1]>>
    ELSE ToText(n \div 10) \o ToText(n % 10)

\* issueCreate(input) { issue { identifier title url } }: the new issue takes
\* the next number after the four issues and the ones created before it
RemoteCreated(r, input) ==
    LET IsTeam(t) == Id(t.id) = input["teamId"]
        teams == RemoteTeams(r.teamsVer)
        identifier == teams[FindIdx(teams, IsTeam)].key \o <<"-">> \o ToText(5 + r.created)
    IN [identifier |-> identifier, title |-> input["title"].s,
        url |-> <<"h","t","t","p","s",":","/","/","l","i","n","e","a","r",".","a","p","p","/","w","s","/","i","s","s","u","e","/">> \o identifier]

\* createdAt of a comment, as the service reports it
CommentStamp == <<"2","0","2","5","-","0","1","-","0","1","T","0","0",":","0","0",":","0","0",".","0","0","0","Z">>

\* The issues of the workspace as the issue queries return them: the one the
\* requests address, with the fields mutations have given it, and three more
OtherIssues ==
    << [identifier |-> <<"E","N","G","-","2">>, title |-> <<"F","i","x"," ","l","o","g","i","n">>, teamId |-> "T1",
        stateId |-> Id("S4"), priority |-> Num(1), assigneeId |-> Id("V1")],
       [identifier |-> <<"E","N","G","-","3">>, title |-> <<"O","l","d"," ","b","u","g">>, teamId |-> "T1",
        stateId |-> Id("S1"), priority |-> Num(0), assigneeId |-> Id("V1")],
       [identifier |-> <<"O","P","S","-","4">>, title |-> <<"R","o","t","a","t","e"," ","k","e","y","s">>, teamId |-> "T2",
        stateId |-> Id("S4"), priority |-> Num(3), assigneeId |-> Id("U2")] >>

IssueTitle == <<"L","o","g","i","n"," ","b","u","g">>

RemoteIssues(r) ==
    << [identifier |-> IssueIdentifier, title |-> IssueTitle, teamId |-> IssueTeamId,
        stateId |-> r.issue.stateId, priority |-> r.issue.priority,
        assigneeId |-> r.issue.assigneeId] >> \o OtherIssues

StateById(id) == StatePool[CHOOSE i \in DOMAIN StatePool : Id(StatePool[i].id) = id]

\* assignee { name email } of an issue; null when unassigned
Assignee(r, issue) ==
    IF issue.assigneeId = Id("V1")
    THEN <<[name |-> RemoteViewer(r.viewerVer).name, email |-> ViewerEmail]>>
    ELSE IF issue.assigneeId = Id("U2") THEN <<[name |-> <<"B","o","b">>, email |-> UserEmail]>>
    ELSE <<>>

\* One comparator of an issues(filter: {...}) argument
Satisfies(r, issue, clause) ==
    CASE clause.field = "assignee.id.eq" -> issue.assigneeId = clause.value
      [] clause.field = "assignee.email.eq" ->
            Assignee(r, issue) # <<>> /\ Assignee(r, issue)[1].email = clause.value.s
      [] clause.field = "state.type.nin" ->
            StateById(issue.stateId).type \notin Range(clause.value.a)
      [] clause.field = "state.name.eqIgnoreCase" ->
            toLowerCase(StateById(issue.stateId).name) = toLowerCase(clause.value.s)
      [] clause.field = "priority.eq" -> issue.priority = clause.value
      [] clause.field = "team.id.eq" -> Id(issue.teamId) = clause.value

RECURSIVE Select(_, _, _)
Select(seq, Keep(_), n) ==
    IF n > Len(seq) THEN <<>>
    ELSE (IF Keep(seq[n]) THEN <<seq[n]>> ELSE <<>>) \o Select(seq, Keep, n + 1)

\* issues(filter, first: 20): the issues that satisfy every clause
IssuesMatching(r, clauses) ==
    LET Keep(issue) == \A i \in DOMAIN clauses : Satisfies(r, issue, clauses[i])
    IN Select(RemoteIssues(r), Keep, 1)

\* searchIssues(term, first: 20): the issues whose title holds the term
IssuesWithTerm(r, term) ==
    LET Keep(issue) == includes(toLowerCase(issue.title), toLowerCase(term))
    IN Select(RemoteIssues(r), Keep, 1)

-----------------------------------------------------------------------------
(* Tasks: one run of an async handler, suspended at each await of graphql   *)

NoParams ==
    [query |-> Undef, id |-> Undef, state |-> Undef, priority |-> Undef,
     assignee |-> Undef, labels |-> Undef, body |-> Undef, title |-> Undef,
     team |-> Undef, graphql |-> Undef, variables |-> Undef]

\* The empty mutation input {} and input[key] = v
EmptyInput == [x \in {} |-> Undef]
SetKey(input, key, v) ==
    [x \in DOMAIN input \cup {key} |-> IF x = key THEN v ELSE input[x]]

\* The action tags and command words as text
TagText ==
    [search |-> <<"s","e","a","r","c","h">>, get |-> <<"g","e","t">>, update |-> <<"u","p","d","a","t","e">>, comment |-> <<"c","o","m","m","e","n","t">>,
     create |-> <<"c","r","e","a","t","e">>, graphql |-> <<"g","r","a","p","h","q","l">>, help |-> <<"h","e","l","p">>, me |-> <<"m","e">>,
     teams |-> <<"t","e","a","m","s">>, bogus |-> <<"b","o","g","u","s">>]

\* pc: "idle", the await the task is suspended at, or "done"
\* issue: <<>> or <<the issue the lookup returned>>; input: the mutation input
\* sent: the GraphQL operations this task has sent, in order
\* mutation: <<>> or <<variables of the mutation sent>>
\* effect: <<>> or <<the issue before and after this task's issueUpdate>>
\* calls: the getViewer/getTeams calls that returned to this task
\* errors: <<>> or <<the messages of the error list a response carried>>
\* result: <<>> or <<what the adapter hands back>>
\* argv: <<>> or <<the parsed command line of a command-line run>>
IdleTask ==
    [pc |-> "idle", action |-> "", p |-> NoParams, issue |-> <<>>,
     input |-> EmptyInput, viewer |-> <<>>, filter |-> <<>>, sent |-> <<>>,
     mutation |-> <<>>, effect |-> <<>>, calls |-> <<>>, errors |-> <<>>,
     result |-> <<>>, argv |-> <<>>]

Send(k, op, pc) == [k EXCEPT !.pc = pc, !.sent = Append(@, op)]
Return(k, kind, text) ==
    [k EXCEPT !.pc = "done", !.result = <<[kind |-> kind, text |-> text]>>]
Called(k, acc, val, fetched) ==
    [k EXCEPT !.calls = Append(@, [acc |-> acc, val |-> val, fetched |-> fetched])]

\* A cache that is never consulted
CacheNeverHit(cache) == FALSE

\* getViewer 83 / getTeams 91: if (cached) return cached
CacheHit(cache) == cache # <<>>

TxtMe == <<"m","e">>
StateNameOf(st) == st.name

-----------------------------------------------------------------------------
(* formatIssue, priorityName, formatIssueList: linear-core.ts 49-76         *)

PriorityNames == <<<<"N","o"," ","p","r","i","o","r","i","t","y">>, <<"U","r","g","e","n","t">>, <<"H","i","g","h">>, <<"M","e","d","i","u","m">>, <<"L","o","w">>>>

\* A lookup that counts the labels from 1
priorityNameFromOne(p) ==
    IF p.tag = "number" /\ p.n \in 1..5 THEN PriorityNames[p.n] ELSE <<"U","n","k","n","o","w","n">>

\* 62-64: the array entry, or "Unknown" where there is none
priorityName(p) ==
    IF p.tag = "number" /\ p.n \in 0..4 THEN PriorityNames[p.n + 1] ELSE <<"U","n","k","n","o","w","n">>

AssigneeName(r, issue) ==
    IF Assignee(r, issue) # <<>> THEN Assignee(r, issue)[1].name ELSE <<"U","n","a","s","s","i","g","n","e","d">>

\* 49-60 for an issue without due date, description and url
formatIssue(r, issue) ==
    Join(<< <<"*","*">> \o issue.identifier \o <<"*","*",":"," ">> \o issue.title,
            <<"S","t","a","t","e",":"," ">> \o StateById(issue.stateId).name \o <<" ","|"," ","P","r","i","o","r","i","t","y",":"," ">>
            \o priorityName(issue.priority) \o <<" ","|"," ","A","s","s","i","g","n","e","e",":"," ">>
            \o AssigneeName(r, issue) >>, <<"\n">>)

IssueLine(r, issue) ==
    <<"-"," ","*","*">> \o issue.identifier \o <<"*","*"," ","[">> \o StateById(issue.stateId).name \o <<"]"," ">>
    \o issue.title \o <<" ","(">> \o priorityName(issue.priority) \o <<","," ">>
    \o AssigneeName(r, issue) \o <<")">>

\* 67-76
formatIssueList(r, issues) ==
    IF Len(issues) = 0 THEN <<"N","o"," ","i","s","s","u","e","s"," ","f","o","u","n","d",".">>
    ELSE Join([i \in DOMAIN issues |-> IssueLine(r, issues[i])], <<"\n">>)

-----------------------------------------------------------------------------
(* handleUpdate: linear-core.ts 260-345                                     *)

\* A finish that sends the mutation whatever the input holds
UpdateFinishAlways(k) ==
    [Send(k, "issueUpdate", "update.mutation") EXCEPT
        !.mutation = <<[id |-> k.issue[1].id, input |-> JSONstringify(k.input)]>>]

\* 323-334: nothing to update, or the one issueUpdate mutation, whose
\* variables graphql serialises (23)
UpdateFinish(k) ==
    IF DOMAIN k.input = {} THEN Return(k, "noUpdates", <<"N","o"," ","u","p","d","a","t","e","s"," ","p","r","o","v","i","d","e","d">>)
    ELSE [Send(k, "issueUpdate", "update.mutation") EXCEPT
             !.mutation = <<[id |-> k.issue[1].id, input |-> JSONstringify(k.input)]>>]

\* An assignee step that takes an absent assignee for null
UpdateAssigneeLooseNull(k, cv) ==
    LET a == k.p.assignee
    IN IF a.tag \in {"undefined", "null"}
       THEN UpdateFinish([k EXCEPT !.input = SetKey(@, "assigneeId", Null)])
       ELSE IF a.s = TxtMe
            THEN IF CacheHit(cv)
                 THEN UpdateFinish([Called(k, "viewer", cv[1], FALSE) EXCEPT
                                       !.input = SetKey(@, "assigneeId", Id(cv[1].id))])
                 ELSE Send(k, "viewer", "update.viewer")
       ELSE Send(k, "users", "update.users")

\* 300-321: assignee null, "me" (getViewer) or an email (users query)
UpdateAssignee(k, cv) ==
    LET a == k.p.assignee
    IN IF a.tag = "undefined" THEN UpdateFinish(k)
       ELSE IF a.tag = "null"
            THEN UpdateFinish([k EXCEPT !.input = SetKey(@, "assigneeId", Null)])
       ELSE IF a.s = TxtMe
            THEN IF CacheHit(cv)
                 THEN UpdateFinish([Called(k, "viewer", cv[1], FALSE) EXCEPT
                                       !.input = SetKey(@, "assigneeId", Id(cv[1].id))])
                 ELSE Send(k, "viewer", "update.viewer")
       ELSE Send(k, "users", "update.users")

\* 296-298
UpdatePriority(k, cv) ==
    UpdateAssignee(IF k.p.priority.tag # "undefined"
                   THEN [k EXCEPT !.input = SetKey(@, "priority", k.p.priority)]
                   ELSE k, cv)

\* 280-293 once resolveState's getTeams has returned teams; on a miss the
\* second getTeams (285) finds the cache set
UpdateStateWithTeams(k, teams, cv) ==
    LET sid == resolveState(teams, k.issue[1].teamId, k.p.state.s)
        IsTeam(t) == t.id = k.issue[1].teamId
        ti == FindIdx(teams, IsTeam)
        validStates == IF ti # 0 THEN Join(Map(teams[ti].states, StateNameOf), <<","," ">>)
                       ELSE <<"u","n","k","n","o","w","n">>
    IN IF sid # NULL
       THEN UpdatePriority([k EXCEPT !.input = SetKey(@, "stateId", Id(sid))], cv)
       ELSE Return(Called(k, "teams", teams, FALSE), "stateNotFound",
                   <<"S","t","a","t","e"," ","\"">> \o k.p.state.s \o <<"\""," ","n","o","t"," ","f","o","u","n","d","."," ","V","a","l","i","d"," ","s","t","a","t","e","s",":"," ">>
                   \o validStates)

\* 277-280: after the issue was found
UpdateState(k, ct, cv) ==
    IF ~Truthy(k.p.state) THEN UpdatePriority(k, cv)
    ELSE IF ~CacheHit(ct) THEN Send(k, "teams", "update.teams")
    ELSE UpdateStateWithTeams(Called(k, "teams", ct[1], FALSE), ct[1], cv)

\* 264-271: resolveId and the issue lookup
UpdateStart(k) == Send(k, "issue", "update.issue")

\* 273-275 on the response of the issue lookup
UpdateOnIssue(k, ct, cv) ==
    IF ~RemoteIssueFound(resolveId(k.p.id.s))
    THEN Return(k, "issueNotFound", <<"I","s","s","u","e"," ">> \o k.p.id.s \o <<" ","n","o","t"," ","f","o","u","n","d">>)
    ELSE UpdateState([k EXCEPT !.issue = <<[id |-> IssueUuid, teamId |-> IssueTeamId]>>],
                     ct, cv)

\* A lookup that compares the emails as they are written
UpdateOnUsersExact(k) ==
    LET IsUser(u) == u.email = k.p.assignee.s
        ui == FindIdx(RemoteUsers, IsUser)
    IN IF ui # 0
       THEN UpdateFinish([k EXCEPT !.input = SetKey(@, "assigneeId", Id(RemoteUsers[ui].id))])
       ELSE Return(k, "userNotFound",
                   <<"C","o","u","l","d"," ","n","o","t"," ","f","i","n","d"," ","u","s","e","r"," ","w","i","t","h"," ","e","m","a","i","l"," ","\"">> \o k.p.assignee.s \o <<"\"">>)

\* 312-319 on the response of the users query
UpdateOnUsers(k) ==
    LET IsUser(u) == toLowerCase(u.email) = toLowerCase(k.p.assignee.s)
        ui == FindIdx(RemoteUsers, IsUser)
    IN IF ui # 0
       THEN UpdateFinish([k EXCEPT !.input = SetKey(@, "assigneeId", Id(RemoteUsers[ui].id))])
       ELSE Return(k, "userNotFound",
                   <<"C","o","u","l","d"," ","n","o","t"," ","f","i","n","d"," ","u","s","e","r"," ","w","i","t","h"," ","e","m","a","i","l"," ","\"">> \o k.p.assignee.s \o <<"\"">>)

\* 336-344 on the response of the mutation: the issue as the service r holds
\* it after the update, and one change for each field the caller supplied
UpdateOnMutation(k, r) ==
    LET issue == RemoteIssues(r)[1]
        changes ==
            (IF Truthy(k.p.state)
             THEN <<<<"s","t","a","t","e"," ","→"," ">> \o StateById(issue.stateId).name>> ELSE <<>>)
            \o (IF k.p.priority.tag # "undefined"
                THEN <<<<"p","r","i","o","r","i","t","y"," ","→"," ">> \o priorityName(issue.priority)>> ELSE <<>>)
            \o (IF k.p.assignee.tag # "undefined"
                THEN <<<<"a","s","s","i","g","n","e","e"," ","→"," ">> \o AssigneeName(r, issue)>> ELSE <<>>)
    IN Return(k, "updated",
              <<"U","p","d","a","t","e","d"," ">> \o issue.identifier \o <<":"," ">> \o Join(changes, <<","," ">>))

-----------------------------------------------------------------------------
(* handleCreate: linear-core.ts 373-404                                     *)

TeamKeyName(t) == t.key \o <<" ","(">> \o t.name \o <<")">>

\* 378-400 once resolveTeam's getTeams has returned teams
CreateWithTeams(k, teams) ==
    LET ti == resolveTeam(teams, k.p.team.s)
        base == SetKey(SetKey(EmptyInput, "title", k.p.title), "teamId",
                       Id(teams[ti].id))
        withBody == IF Truthy(k.p.body) THEN SetKey(base, "description", k.p.body)
                    ELSE base
        input == IF k.p.priority.tag # "undefined"
                 THEN SetKey(withBody, "priority", k.p.priority)
                 ELSE withBody
    IN IF ti = 0
       THEN Return(Called(k, "teams", teams, FALSE), "teamNotFound",
                   <<"T","e","a","m"," ","\"">> \o k.p.team.s \o <<"\""," ","n","o","t"," ","f","o","u","n","d","."," ","A","v","a","i","l","a","b","l","e",":"," ">>
                   \o Join(Map(teams, TeamKeyName), <<","," ">>))
       ELSE [Send(k, "issueCreate", "create.mutation") EXCEPT
                !.input = input, !.mutation = <<[input |-> JSONstringify(input)]>>]

CreateStart(k, ct) ==
    IF ~CacheHit(ct) THEN Send(k, "teams", "create.teams")
    ELSE CreateWithTeams(Called(k, "teams", ct[1], FALSE), ct[1])

\* 402-403 on the response of the mutation
CreateOnMutation(k, issue) ==
    Return(k, "created",
           <<"C","r","e","a","t","e","d"," ">> \o issue.identifier \o <<":"," ">> \o issue.title \o <<"\n">> \o issue.url)

-----------------------------------------------------------------------------
(* handleSearch: linear-core.ts 157-217                                     *)

\* The filter is kept as its clauses; no clause is the empty filter string
SearchIssues(k, clauses) ==
    [Send(k, "issues", "search.issues") EXCEPT !.filter = clauses]

\* A default filter that keeps finished issues
DefaultClausesAssigneeOnly(viewer) ==
    << [field |-> "assignee.id.eq", value |-> Id(viewer.id)] >>

\* 164: the default filter
DefaultClauses(viewer) ==
    << [field |-> "assignee.id.eq", value |-> Id(viewer.id)],
       [field |-> "state.type.nin", value |-> Arr(<<"completed", "canceled">>)] >>

\* 180-194: the clauses for assignee, state and priority
ObjectClauses(q, viewer) ==
    (IF q.assignee.tag = "string" /\ q.assignee = Str(TxtMe)
     THEN <<[field |-> "assignee.id.eq", value |-> Id(viewer.id)]>>
     ELSE IF Truthy(q.assignee)
          THEN <<[field |-> "assignee.email.eq", value |-> q.assignee]>>
          ELSE <<>>)
    \o (IF Truthy(q.state)
        THEN <<[field |-> "state.name.eqIgnoreCase", value |-> q.state]>> ELSE <<>>)
    \o (IF q.priority.tag # "undefined"
        THEN <<[field |-> "priority.eq", value |-> q.priority]>> ELSE <<>>)

\* 196-199 once resolveTeam's getTeams has returned teams
SearchWithTeams(k, teams) ==
    LET q == k.p.query.o
        ti == resolveTeam(teams, q.team.s)
    IN SearchIssues(k, ObjectClauses(q, k.viewer[1])
                       \o (IF ti # 0
                           THEN <<[field |-> "team.id.eq", value |-> Id(teams[ti].id)]>>
                           ELSE <<>>))

\* 160-204 once getViewer has returned
SearchWithViewer(k, ct) ==
    LET q == k.p.query
    IN IF ~Truthy(q) THEN SearchIssues(k, DefaultClauses(k.viewer[1]))
       ELSE IF q.tag = "string" THEN Send(k, "searchIssues", "search.text")
       ELSE IF Truthy(q.o.team)
            THEN IF ~CacheHit(ct) THEN Send(k, "teams", "search.teams")
                 ELSE SearchWithTeams(Called(k, "teams", ct[1], FALSE), ct[1])
       ELSE SearchIssues(k, ObjectClauses(q.o, k.viewer[1]))

\* 158
SearchStart(k, ct, cv) ==
    IF ~CacheHit(cv) THEN Send(k, "viewer", "search.viewer")
    ELSE SearchWithViewer([Called(k, "viewer", cv[1], FALSE) EXCEPT !.viewer = cv], ct)

\* 177, 216 on the response of either query
SearchOnIssues(k, r) ==
    Return(k, "issueList",
           formatIssueList(r, IF k.pc = "search.text" THEN IssuesWithTerm(r, k.p.query.s)
                              ELSE IssuesMatching(r, k.filter)))

-----------------------------------------------------------------------------
(* handleGet 219-258, handleComment 347-371, handleGraphql 406-409,         *)
(* handleHelp 411-451                                                       *)

\* A lookup miss that is raised instead of returned
IssueNotFoundRaised(k) ==
    Return(k, "error", <<"E","r","r","o","r",":"," ","I","s","s","u","e"," ">> \o k.p.id.s \o <<" ","n","o","t"," ","f","o","u","n","d">>)

IssueNotFound(k) ==
    Return(k, "issueNotFound", <<"I","s","s","u","e"," ">> \o k.p.id.s \o <<" ","n","o","t"," ","f","o","u","n","d">>)

\* 220-235: resolveId and the issue query
GetStart(k) == Send(k, "issue", "get.issue")

\* 252-254: one comment of the issue query's comments(first: 5)
CommentBlock(r, body) ==
    <<"*","*">> \o RemoteViewer(r.viewerVer).name \o <<"*","*"," ","(">> \o CommentStamp \o <<")", ":", "\n">>
    \o body

\* 237-257 on the response, for an issue without labels
GetOnIssue(k, r) ==
    IF ~RemoteIssueFound(resolveId(k.p.id.s)) THEN IssueNotFound(k)
    ELSE Return(k, "issue",
                formatIssue(r, RemoteIssues(r)[1])
                \o (IF Len(r.comments) > 0
                    THEN <<"\n", "\n">> \o <<"#","#"," ","R","e","c","e","n","t"," ","C","o","m","m","e","n","t","s">> \o <<"\n">>
                         \o Join([i \in DOMAIN r.comments |-> CommentBlock(r, r.comments[i])],
                                 <<"\n", "\n">>)
                    ELSE <<>>))

\* 348-355: resolveId and the issue lookup
CommentStart(k) == Send(k, "issue", "comment.issue")

\* 357-367 on the response of the lookup
CommentOnIssue(k) ==
    IF ~RemoteIssueFound(resolveId(k.p.id.s)) THEN IssueNotFound(k)
    ELSE [Send(k, "commentCreate", "comment.mutation") EXCEPT
             !.mutation = <<[issueId |-> IssueUuid, body |-> k.p.body.s]>>]

\* An echo that already shortens a body of 100 characters
CommentOnMutationFrom100(k) ==
    LET body == k.p.body.s
        truncated == IF Len(body) >= 100 THEN SubSeq(body, 1, 100) \o <<".",".",".">> ELSE body
    IN Return(k, "commented",
              <<"A","d","d","e","d"," ","c","o","m","m","e","n","t"," ","t","o"," ">> \o IssueIdentifier \o <<":", "\n", ">", " ">> \o truncated)

\* 369-370 on the response of the mutation
CommentOnMutation(k) ==
    LET body == k.p.body.s
        truncated == IF Len(body) > 100 THEN SubSeq(body, 1, 100) \o <<".",".",".">> ELSE body
    IN Return(k, "commented",
              <<"A","d","d","e","d"," ","c","o","m","m","e","n","t"," ","t","o"," ">> \o IssueIdentifier \o <<":", "\n", ">", " ">> \o truncated)

\* 407: the caller's query goes out as it is
GraphqlStart(k) == Send(k, "raw", "graphql.query")

\* 408 on the response: the data as JSON text, kept as the data itself
GraphqlOnData(k) == Return(k, "json", <<"{","}">>)

\* 411-451: the fixed documentation, by its heading
handleHelp(k) == Return(k, "help", <<"#"," ","L","i","n","e","a","r"," ","M","C","P">>)

-----------------------------------------------------------------------------
(* buildToolDescription: linear-core.ts 472-495                             *)

QuotedStateName(st) ==
    IF includes(st.name, <<",">>) THEN <<"\"">> \o st.name \o <<"\"">> ELSE st.name

TeamLine(t) == <<" "," ">> \o t.key \o <<":"," ">> \o Join(Map(t.states, QuotedStateName), <<","," ">>)

\* 484-494: the heading, the team lines, and the examples; 493: the create
\* example names the first team's key, or KEY
DescriptionOnTeams(k, teams) ==
    LET head ==
            <<"L","i","n","e","a","r"," ","i","s","s","u","e","s","."," ","A","c","t","i","o","n","s",":"," ","h","e","l","p",","," ","s","e","a","r","c","h",","," ","g","e","t",","," ","u","p","d","a","t","e",","," ","c","o","m","m","e","n","t",","," ","c","r","e","a","t","e",","," ","g","r","a","p","h","q","l","\n","\n","T","e","a","m","s"," ","(","w","o","r","k","f","l","o","w"," ","s","t","a","t","e","s",")",":","\n">>
        examples ==
            <<"\n","\n","{","\"","a","c","t","i","o","n","\"",":"," ","\"","s","e","a","r","c","h","\"","}"," ","→"," ","y","o","u","r"," ","a","c","t","i","v","e"," ","i","s","s","u","e","s","\n","{","\"","a","c","t","i","o","n","\"",":"," ","\"","s","e","a","r","c","h","\"",","," ","\"","q","u","e","r","y","\"",":"," ","\"","t","e","x","t","\"","}"," ","→"," ","t","e","x","t"," ","s","e","a","r","c","h","\n","{","\"","a","c","t","i","o","n","\"",":"," ","\"","g","e","t","\"",","," ","\"","i","d","\"",":"," ","\"","A","B","C","-","1","2","3","\"","}"," ","→"," ","i","s","s","u","e"," ","d","e","t","a","i","l","s","\n","{","\"","a","c","t","i","o","n","\"",":"," ","\"","u","p","d","a","t","e","\"",","," ","\"","i","d","\"",":"," ","\"","A","B","C","-","1","2","3","\"",","," ","\"","s","t","a","t","e","\"",":"," ","\"","D","o","n","e","\"","}","\n","{","\"","a","c","t","i","o","n","\"",":"," ","\"","c","r","e","a","t","e","\"",","," ","\"","t","i","t","l","e","\"",":"," ","\"","T","i","t","l","e","\"",","," ","\"","t","e","a","m","\"",":"," ","\"">>
        tail ==
            <<"\"","}","\n","{","\"","a","c","t","i","o","n","\"",":"," ","\"","h","e","l","p","\"","}"," ","→"," ","f","u","l","l"," ","d","o","c","u","m","e","n","t","a","t","i","o","n">>
    IN Return(k, "description",
              head \o Join(Map(teams, TeamLine), <<"\n">>) \o examples
              \o (IF Len(teams) > 0 /\ teams[1].key # <<>> THEN teams[1].key ELSE <<"K","E","Y">>)
              \o tail)

-----------------------------------------------------------------------------
(* dispatchAction: linear-core.ts 498-540, called by the server's tool      *)
(* handler (index.ts 30-41), which turns a thrown error into "Error: ..."   *)

\* An adapter that reports a failure without its message
ThrownWithoutMessage(k, message) == Return(k, "error", <<"E","r","r","o","r",":"," ">>)

Thrown(k, message) == Return(k, "error", <<"E","r","r","o","r",":"," ">> \o message)

\* A dispatcher that calls the handlers without looking at the fields
dispatchActionUnguarded(k, ct, cv) ==
    CASE k.action = "search" -> SearchStart(k, ct, cv)
      [] k.action = "update" -> UpdateStart(k)
      [] k.action = "create" -> Send(k, "teams", "create.teams")
      [] k.action = "get" -> GetStart(k)
      [] k.action = "comment" -> CommentStart(k)
      [] k.action = "graphql" -> GraphqlStart(k)
      [] OTHER -> handleHelp(k)

dispatchAction(k, ct, cv) ==
    CASE k.action = "search" -> SearchStart(k, ct, cv)
      [] k.action = "update" ->
            IF ~Truthy(k.p.id) THEN Thrown(k, <<"i","d"," ","i","s"," ","r","e","q","u","i","r","e","d"," ","f","o","r"," ","u","p","d","a","t","e"," ","a","c","t","i","o","n">>)
            ELSE UpdateStart(k)
      [] k.action = "create" ->
            IF ~Truthy(k.p.title) THEN Thrown(k, <<"t","i","t","l","e"," ","i","s"," ","r","e","q","u","i","r","e","d"," ","f","o","r"," ","c","r","e","a","t","e"," ","a","c","t","i","o","n">>)
            ELSE IF ~Truthy(k.p.team)
                 THEN Thrown(k, <<"t","e","a","m"," ","i","s"," ","r","e","q","u","i","r","e","d"," ","f","o","r"," ","c","r","e","a","t","e"," ","a","c","t","i","o","n">>)
            ELSE CreateStart(k, ct)
      [] k.action = "get" ->
            IF ~Truthy(k.p.id) THEN Thrown(k, <<"i","d"," ","i","s"," ","r","e","q","u","i","r","e","d"," ","f","o","r"," ","g","e","t"," ","a","c","t","i","o","n">>)
            ELSE GetStart(k)
      [] k.action = "comment" ->
            IF ~Truthy(k.p.id) THEN Thrown(k, <<"i","d"," ","i","s"," ","r","e","q","u","i","r","e","d"," ","f","o","r"," ","c","o","m","m","e","n","t"," ","a","c","t","i","o","n">>)
            ELSE IF ~Truthy(k.p.body)
                 THEN Thrown(k, <<"b","o","d","y"," ","i","s"," ","r","e","q","u","i","r","e","d"," ","f","o","r"," ","c","o","m","m","e","n","t"," ","a","c","t","i","o","n">>)
            ELSE CommentStart(k)
      [] k.action = "graphql" ->
            IF ~Truthy(k.p.graphql)
            THEN Thrown(k, <<"g","r","a","p","h","q","l"," ","q","u","e","r","y"," ","i","s"," ","r","e","q","u","i","r","e","d"," ","f","o","r"," ","g","r","a","p","h","q","l"," ","a","c","t","i","o","n">>)
            ELSE GraphqlStart(k)
      [] k.action = "help" -> handleHelp(k)
      [] OTHER -> Thrown(k, <<"U","n","k","n","o","w","n"," ","a","c","t","i","o","n",":"," ">> \o TagText[k.action])

\* LinearParams 456-466: every field is optional; six are strings, query is a
\* string or a record, priority a number from 0 to 4, assignee a string or
\* null, labels an array of strings (the elements of an array are texts
\* here), variables a record
FieldsParse(p) ==
    /\ p.query.tag \in {"undefined", "string", "object"}
    /\ \A f \in {"id", "state", "body", "title", "team", "graphql"} :
          p[f].tag \in {"undefined", "string"}
    /\ p.priority.tag \in {"undefined", "number"}
    /\ p.priority.tag = "number" => p.priority.n >= 0 /\ p.priority.n <= 4
    /\ p.assignee.tag \in {"undefined", "null", "string"}
    /\ p.labels.tag \in {"undefined", "array"}
    /\ p.variables.tag \in {"undefined", "object"}

\* A schema that lets every action tag through
ParsesAnyAction(req) == FieldsParse(req.p)

\* LinearParams 454-467: the action is one of the enum and the fields have
\* their types
KnownActions == {"search", "get", "update", "comment", "create", "graphql", "help"}

Parses(req) ==
    /\ req.action \in KnownActions
    /\ FieldsParse(req.p)

\* index.ts 30-41: LinearParams.parse(args) throws before the try block;
\* otherwise dispatchAction runs up to its first await
toolHandler(req, ct, cv) ==
    IF ~Parses(req)
    THEN Return([IdleTask EXCEPT !.action = req.action, !.p = req.p], "invalid",
                <<"I","n","v","a","l","i","d"," ","a","r","g","u","m","e","n","t","s"," ","f","o","r"," ","t","o","o","l"," ","l","i","n","e","a","r">>)
    ELSE dispatchAction([IdleTask EXCEPT !.action = req.action, !.p = req.p], ct, cv)

-----------------------------------------------------------------------------
(* main of cli.ts 130-265: one command, handlers called directly            *)

RECURSIVE DigitsValue(_)
DigitsValue(ds) ==
    IF ds = <<>> THEN 0
    ELSE 10 * DigitsValue(SubSeq(ds, 1, Len(ds) - 1))
         + (CHOOSE d \in 0..9 : <<"0","1","2","3","4","5","6","7","8","9">>[d + 1] = ds[Len(ds)])

\* StrWhiteSpaceChar of ECMAScript, which parseInt and trim skip: white space
\* and line terminators. Space, TAB, LF, CR, FF, VT (U+000B), NBSP (U+00A0),
\* BOM (U+FEFF) and U+1680 are listed; the other members (U+2000-200A, U+2028, U+2029, U+202F, U+205F,
\* U+3000) cannot be written in a string of this module, so no text here
\* holds them
IsSpaceC(c) == c \in {" ", "\t", "\n", "\r", "\f", "", " ", "﻿", " "}

\* parseInt(text, 10): leading white space, an optional sign, the leading digits
ParseInt(text) ==
    LET a == RunEnd(text, 1, IsSpaceC) + 1
        signed == a <= Len(text) /\ text[a] \in {"-", "+"}
        b == IF signed THEN a + 1 ELSE a
        e == RunEnd(text, b, IsDigitC)
        n == DigitsValue(SubSeq(text, b, e))
    IN IF e < b THEN NaN
       ELSE Num(IF signed /\ text[a] = "-" THEN 0 - n ELSE n)

NoFlags ==
    [state |-> Undef, assignee |-> Undef, priority |-> Undef, team |-> Undef,
     title |-> Undef, body |-> Undef, token |-> Undef]

FlagCount(flags) == Cardinality({f \in DOMAIN flags : flags[f].tag # "undefined"})

Usage(k, message) == Return(k, "usage", <<"E","r","r","o","r",":"," ">> \o message)

\* 152-169
CliSearch(k, positional, flags, ct, cv) ==
    IF Len(positional) > 0
    THEN SearchStart([k EXCEPT !.p.query = Str(Join(positional, <<" ">>))], ct, cv)
    ELSE IF FlagCount(flags) > 0
    THEN SearchStart(
            [k EXCEPT !.p.query =
                Obj([state |-> IF Truthy(flags.state) THEN flags.state ELSE Undef,
                     assignee |-> IF Truthy(flags.assignee) THEN flags.assignee ELSE Undef,
                     priority |-> IF Truthy(flags.priority) THEN ParseInt(flags.priority.s)
                                  ELSE Undef,
                     team |-> IF Truthy(flags.team) THEN flags.team ELSE Undef])],
            ct, cv)
    ELSE SearchStart(k, ct, cv)

\* 182-202
CliUpdate(k, positional, flags) ==
    LET state == IF Truthy(flags.state) THEN flags.state ELSE Undef
        priority == IF Truthy(flags.priority) THEN ParseInt(flags.priority.s) ELSE Undef
        assignee == IF flags.assignee.tag = "undefined" THEN Undef
                    ELSE IF flags.assignee = Str(<<"n","u","l","l">>) THEN Null
                    ELSE flags.assignee
    IN IF Len(positional) = 0 \/ positional[1] = <<>>
       THEN Usage(k, <<"I","s","s","u","e"," ","I","D"," ","i","s"," ","r","e","q","u","i","r","e","d">>)
       ELSE IF state.tag = "undefined" /\ priority.tag = "undefined"
               /\ flags.assignee.tag = "undefined"
            THEN Usage(k, <<"A","t"," ","l","e","a","s","t"," ","o","n","e"," ","u","p","d","a","t","e"," ","o","p","t","i","o","n"," ","i","s"," ","r","e","q","u","i","r","e","d">>)
       ELSE UpdateStart([k EXCEPT !.p.id = Str(positional[1]), !.p.state = state,
                                  !.p.priority = priority, !.p.assignee = assignee])

\* 216-229
CliCreate(k, flags, ct) ==
    IF ~Truthy(flags.title) \/ ~Truthy(flags.team)
    THEN Usage(k, <<"-","-","t","i","t","l","e"," ","a","n","d"," ","-","-","t","e","a","m"," ","a","r","e"," ","r","e","q","u","i","r","e","d">>)
    ELSE CreateStart(
            [k EXCEPT !.p.title = flags.title, !.p.team = flags.team,
                      !.p.body = IF Truthy(flags.body) THEN flags.body ELSE Undef,
                      !.p.priority = IF Truthy(flags.priority)
                                     THEN ParseInt(flags.priority.s) ELSE Undef],
            ct)

\* 242-251
TeamStates(t) ==
    TeamKeyName(t) \o <<"\n">> \o <<" "," ","S","t","a","t","e","s",":"," ">>
    \o Join(Map(t.states, StateNameOf), <<","," ">>) \o <<"\n", "\n">>

CliTeamsWithTeams(k, teams) ==
    Return(k, "teams", <<"A","v","a","i","l","a","b","l","e"," ","t","e","a","m","s"," ","a","n","d"," ","w","o","r","k","f","l","o","w"," ","s","t","a","t","e","s",":">> \o <<"\n", "\n">>
                       \o Join(Map(teams, TeamStates), <<>>))

CliTeams(k, ct) ==
    IF ~CacheHit(ct) THEN Send(k, "teams", "teams.teams")
    ELSE CliTeamsWithTeams(Called(k, "teams", ct[1], FALSE), ct[1])

\* 171-180
CliGet(k, positional) ==
    IF Len(positional) = 0 \/ positional[1] = <<>>
    THEN Usage(k, <<"I","s","s","u","e"," ","I","D"," ","i","s"," ","r","e","q","u","i","r","e","d">>)
    ELSE GetStart([k EXCEPT !.p.id = Str(positional[1])])

\* 204-214: the body is the rest of the arguments, or else --body
CliComment(k, positional, flags) ==
    LET joined == IF Len(positional) > 1
                  THEN Join(SubSeq(positional, 2, Len(positional)), <<" ">>) ELSE <<>>
        body == IF joined # <<>> THEN Str(joined) ELSE flags.body
    IN IF Len(positional) = 0 \/ positional[1] = <<>> \/ ~Truthy(body)
       THEN Usage(k, <<"I","s","s","u","e"," ","I","D"," ","a","n","d"," ","c","o","m","m","e","n","t"," ","b","o","d","y"," ","a","r","e"," ","r","e","q","u","i","r","e","d">>)
       ELSE CommentStart([k EXCEPT !.p.id = Str(positional[1]), !.p.body = body])

\* 231-240
CliGraphql(k, positional) ==
    IF Join(positional, <<" ">>) = <<>> THEN Usage(k, <<"G","r","a","p","h","Q","L"," ","q","u","e","r","y"," ","i","s"," ","r","e","q","u","i","r","e","d">>)
    ELSE GraphqlStart([k EXCEPT !.p.graphql = Str(Join(positional, <<" ">>))])

-----------------------------------------------------------------------------
(* resolveToken and the head of main: cli.ts 93-146                         *)

startsWith(s, pre) == Len(s) >= Len(pre) /\ SubSeq(s, 1, Len(pre)) = pre
endsWith(s, suf) == Len(s) >= Len(suf) /\ SubSeq(s, Len(s) - Len(suf) + 1, Len(s)) = suf

\* String.prototype.trim: StrWhiteSpaceChar is removed at both ends
trim(s) ==
    LET kept == {i \in DOMAIN s : ~IsSpaceC(s[i])}
    IN IF kept = {} THEN <<>>
       ELSE SubSeq(s, CHOOSE i \in kept : \A j \in kept : i <= j,
                      CHOOSE i \in kept : \A j \in kept : j <= i)

\* 121: the test on one entry of process.env
IsLinearToken(e) ==
    endsWith(e.key, <<"_","A","P","I","_","T","O","K","E","N">>) /\ startsWith(e.key, <<"L","I","N","E","A","R">>) /\ e.value # <<>>

\* 120-124: the first entry that passes, 0 for none
EnvPick(env) ==
    IF \E i \in DOMAIN env : IsLinearToken(env[i])
    THEN CHOOSE i \in DOMAIN env :
            IsLinearToken(env[i]) /\ \A j \in 1..(i - 1) : ~IsLinearToken(env[j])
    ELSE 0

\* A resolveToken that prefers LINEAR_API_TOKEN to the flags
resolveTokenEnvFirst(in) ==
    IF Truthy(in.linear) THEN [kind |-> "token", token |-> in.linear]
    ELSE IF Truthy(in.token) THEN [kind |-> "token", token |-> in.token]
    ELSE IF Truthy(in.tokenCmd)
    THEN IF in.tokenCmd.fails THEN [kind |-> "cmdFailed", token |-> Null]
         ELSE [kind |-> "token", token |-> Str(trim(in.tokenCmd.stdout))]
    ELSE IF EnvPick(in.env) # 0
    THEN [kind |-> "token", token |-> Str(in.env[EnvPick(in.env)].value)]
    ELSE [kind |-> "none", token |-> Null]

\* 93-127: --token, --token-cmd, LINEAR_API_TOKEN, any LINEAR*_API_TOKEN
resolveToken(in) ==
    IF Truthy(in.token) THEN [kind |-> "token", token |-> in.token]
    ELSE IF Truthy(in.tokenCmd)
    THEN IF in.tokenCmd.fails THEN [kind |-> "cmdFailed", token |-> Null]
         ELSE [kind |-> "token", token |-> Str(trim(in.tokenCmd.stdout))]
    ELSE IF Truthy(in.linear) THEN [kind |-> "token", token |-> in.linear]
    ELSE IF EnvPick(in.env) # 0
    THEN [kind |-> "token", token |-> Str(in.env[EnvPick(in.env)].value)]
    ELSE [kind |-> "none", token |-> Null]

\* setApiToken (called at cli.ts 146, defined outside the sources at hand):
\* the token becomes what getApiToken returns to graphql
setApiToken(token) == token

TokenCommand(fails, stdout) == [tag |-> "command", fails |-> fails, stdout |-> stdout]

\* 141-146: resolve the token, give up without one (142-145) or when the
\* token command failed (107-111), or set it
TokenOutcome(in) ==
    LET r == resolveToken(in)
    IN IF r.kind = "cmdFailed"
       THEN [pc |-> "exit1", token |-> Undef,
             stderr |-> <<"E","r","r","o","r"," ","r","u","n","n","i","n","g"," ","t","o","k","e","n"," ","c","o","m","m","a","n","d">>]
       ELSE IF ~Truthy(r.token)
       THEN [pc |-> "exit1", token |-> Undef,
             stderr |-> <<"E","r","r","o","r",":"," ","N","o"," ","A","P","I"," ","t","o","k","e","n"," ","p","r","o","v","i","d","e","d","."," ","U","s","e"," ","-","-","t","o","k","e","n",","," ","-","-","t","o","k","e","n","-","c","m","d",","," ","o","r"," ","s","e","t"," ","L","I","N","E","A","R","_","A","P","I","_","T","O","K","E","N"," ","(","o","r"," ","a","n","y"," ","L","I","N","E","A","R","*","_","A","P","I","_","T","O","K","E","N",")">>]
       ELSE [pc |-> "ready", token |-> r.token, stderr |-> <<>>]

-----------------------------------------------------------------------------
(* The switch of main: cli.ts 148-258                                       *)

cliMain(k, positional, flags, ct, cv) ==
    CASE k.action = "search" -> CliSearch(k, positional, flags, ct, cv)
      [] k.action = "update" -> CliUpdate(k, positional, flags)
      [] k.action = "create" -> CliCreate(k, flags, ct)
      [] k.action = "teams" -> CliTeams(k, ct)
      [] k.action = "get" -> CliGet(k, positional)
      [] k.action = "comment" -> CliComment(k, positional, flags)
      [] k.action = "graphql" -> CliGraphql(k, positional)
      [] OTHER -> Return(k, "unknownCommand", <<"U","n","k","n","o","w","n"," ","c","o","m","m","a","n","d",":"," ">> \o TagText[k.action])

\* main 130-265 for the parsed command line c in the environment in: the help
\* needs no token (134-138); otherwise the token is resolved from the flags
\* and the environment (140) and the run ends without one (141-145) or goes
\* on to the switch with the token set (146). resolved is <<>> or <<the
\* outcome of the resolution>>
main(c, in, ct, cv) ==
    LET k == [IdleTask EXCEPT !.action = c.command, !.argv = <<c>>]
        out == TokenOutcome([in EXCEPT !.token = c.flags.token])
    IN IF c.command \in {"help", "--help", "-h"}
       THEN [task |-> Return(k, "help", <<"s","t","r","e","a","m","l","i","n","e","a","r","-","c","l","i">>),
             resolved |-> <<>>]
       ELSE IF out.pc = "exit1"
       THEN [task |-> Return(k, "noToken", out.stderr), resolved |-> <<out>>]
       ELSE [task |-> cliMain(k, c.positional, c.flags, ct, cv), resolved |-> <<out>>]

\* How main ends: without a token, in the usage and unknown-command branches
\* and in the catch it prints with console.error and calls process.exit(1)
\* (142-145, 174-176, 254-256, 260-263); any other result is printed with
\* console.log (259) and main returns
CliExit(k) ==
    IF k.result[1].kind \in {"noToken", "usage", "unknownCommand", "error"} THEN 1 ELSE 0
CliStream(k) ==
    IF k.result[1].kind \in {"noToken", "usage", "unknownCommand", "error"} THEN "stderr"
    ELSE "stdout"

-----------------------------------------------------------------------------
(* The process: server startup, action requests, responses                  *)

MaxTasks == 2

Tasks == 1..MaxTasks

IdGood == Str(<<"e","n","g","-","1">>)
IdMissing == Str(<<"E","N","G","-","9">>)

UpdateRequests ==
    [id : {IdGood},
     state : {Undef, Str(<<>>), Str(<<"d","o","n","e">>), Str(<<"n","o","p","e">>)},
     priority : {Undef, Num(0), Num(3)},
     assignee : {Undef, Null, Str(TxtMe), Str(<<"B","O","B","@","x",".","i","o">>), Str(<<"e","v","e","@","x",".","i","o">>)}]
    \cup [id : {IdMissing, Undef}, state : {Str(<<"d","o","n","e">>)}, priority : {Undef},
          assignee : {Undef}]

CreateRequests ==
    [title : {Str(<<"B","u","g">>)}, team : {Str(<<"e","n","g">>), Str(<<"o","p","e","r","a","t","i","o","n","s">>), Str(<<"n","o","p","e">>)},
     body : {Undef, Str(<<>>), Str(<<"t","x","t">>)}, priority : {Undef, Num(0)},
     labels : {Undef, Arr(<<<<"l">>>>)}]
    \cup [title : {Undef}, team : {Str(<<"e","n","g">>)}, body : {Undef}, priority : {Undef},
          labels : {Undef}]
    \cup [title : {Str(<<"B","u","g">>)}, team : {Undef}, body : {Undef}, priority : {Undef},
          labels : {Undef}]

SearchQueries ==
    {Undef, Str(<<"b","u","g">>)}
    \cup {Obj(o) : o \in [assignee : {Undef, Str(TxtMe), Str(<<"b","o","b","@","x",".","i","o">>)},
                          state : {Undef, Str(<<"D","o","n","e">>)},
                          priority : {Undef, Num(0)},
                          team : {Undef, Str(<<"E","N","G">>), Str(<<"n","o","p","e">>)}]}

UpdateParams(r) ==
    [NoParams EXCEPT !.id = r.id, !.state = r.state, !.priority = r.priority,
                     !.assignee = r.assignee]
CreateParams(r) ==
    [NoParams EXCEPT !.title = r.title, !.team = r.team, !.body = r.body,
                     !.priority = r.priority, !.labels = r.labels]
SearchParams(q) == [NoParams EXCEPT !.query = q]

\* Comment bodies of 100 and of 101 characters
Body100 == [i \in 1..100 |-> "a"]
Body101 == Body100 \o <<"b">>

\* Parsed tool arguments a host may send
Requests ==
    {[action |-> "update", p |-> UpdateParams(r)] : r \in UpdateRequests}
    \cup {[action |-> "create", p |-> CreateParams(r)] : r \in CreateRequests}
    \cup {[action |-> "search", p |-> SearchParams(q)] : q \in SearchQueries}

\* Tool arguments of every tag, with and without their required fields, with
\* priorities inside and outside the schema's range, and with fields of a
\* type the schema does not take
ToolRequests ==
    {[action |-> "get", p |-> [NoParams EXCEPT !.id = i]] :
        i \in {IdGood, IdMissing, Undef, Str(<<>>)}}
    \cup {[action |-> "comment", p |-> [NoParams EXCEPT !.id = i, !.body = b]] :
             i \in {IdGood, IdMissing, Undef}, b \in {Undef, Str(<<>>), Str(<<"o","k">>)}}
    \cup {[action |-> "comment", p |-> [NoParams EXCEPT !.id = IdGood, !.body = Str(b)]] :
             b \in {Body100, Body101}}
    \cup {[action |-> "graphql", p |-> [NoParams EXCEPT !.graphql = g]] :
             g \in {Undef, Str(<<"{"," ","v","i","e","w","e","r"," ","{"," ","i","d"," ","}"," ","}">>)}}
    \cup {[action |-> a, p |-> NoParams] : a \in {"help", "me", "bogus", "teams"}}
    \cup {[action |-> "bogus", p |-> [NoParams EXCEPT !.id = IdGood]]}
    \cup {[action |-> "update", p |-> [NoParams EXCEPT !.id = i, !.priority = n]] :
             i \in {IdGood, Undef}, n \in {Undef, Num(0 - 1), Num(4), Num(5)}}
    \cup {[action |-> "update",
           p |-> [NoParams EXCEPT !.id = IdGood, !.assignee = Str(UserEmail)]]}
    \cup {[action |-> "create",
           p |-> [NoParams EXCEPT !.title = ti, !.team = te, !.priority = n]] :
             ti \in {Undef, Str(<<"B","u","g">>)}, te \in {Undef, Str(<<"e","n","g">>)},
             n \in {Undef, Num(5)}}
    \cup {[action |-> "get", p |-> [NoParams EXCEPT !.id = Num(5)]],
           [action |-> "update", p |-> [NoParams EXCEPT !.id = IdGood, !.state = Null]],
           [action |-> "update", p |-> [NoParams EXCEPT !.id = IdGood, !.assignee = Num(1)]],
           [action |-> "comment", p |-> [NoParams EXCEPT !.id = IdGood, !.body = Null]],
           [action |-> "create",
            p |-> [NoParams EXCEPT !.title = Str(<<"B","u","g">>), !.team = Str(<<"e","n","g">>),
                                   !.labels = Str(<<"x">>)]],
           [action |-> "create",
            p |-> [NoParams EXCEPT !.title = Num(7), !.team = Str(<<"e","n","g">>)]],
           [action |-> "graphql",
            p |-> [NoParams EXCEPT !.graphql = Str(<<"{","}">>), !.variables = Arr(<<>>)]],
           [action |-> "search", p |-> SearchParams(Null)]}
    \cup {[action |-> "search", p |-> SearchParams(q)] :
             q \in {Undef, Str(<<"b","u","g">>),
                    Obj([assignee |-> Undef, state |-> Undef, team |-> Undef,
                         priority |-> Num(9)])}}

\* The requests sent while another request is still being served
OverlappingRequests ==
    { [action |-> "search", p |-> NoParams],
      [action |-> "search",
       p |-> SearchParams(Obj([assignee |-> Str(TxtMe), state |-> Undef,
                               priority |-> Undef, team |-> Str(<<"E","N","G">>)]))],
      [action |-> "update",
       p |-> [NoParams EXCEPT !.id = IdGood, !.assignee = Str(TxtMe)]],
      [action |-> "update",
       p |-> [NoParams EXCEPT !.id = IdGood, !.state = Str(<<"n","o","p","e">>),
                              !.assignee = Str(<<"B","O","B","@","x",".","i","o">>)]],
      [action |-> "update",
       p |-> [NoParams EXCEPT !.id = IdGood,
                              !.assignee = Str(<<"B","O","B","@","x",".","i","o">>)]],
      [action |-> "update",
       p |-> [NoParams EXCEPT !.id = IdGood, !.state = Str(<<"d","o","n","e">>),
                              !.priority = Num(0)]],
      [action |-> "create",
       p |-> [NoParams EXCEPT !.title = Str(<<"B","u","g">>), !.team = Str(<<"e","n","g">>)]] }

\* Command lines after parseArgs: command, positional arguments, flags
CliCommands ==
    [command : {"update"}, positional : {<<>>, <<<<"e","n","g","-","1">>>>, <<<<"E","N","G","-","9">>>>},
     flags : {[NoFlags EXCEPT !.state = st, !.priority = pr, !.assignee = a] :
                 st \in {Undef, Str(<<"d","o","n","e">>), Str(<<"n","o","p","e">>)},
                 pr \in {Undef, Str(<<"\t","3">>)},
                 a \in {Undef, Null, Str(<<"n","u","l","l">>), Str(TxtMe), Str(<<"e","v","e","@","x",".","i","o">>)}}]
    \cup [command : {"create"}, positional : {<<>>},
          flags : {[NoFlags EXCEPT !.title = ti, !.team = te, !.body = b] :
                      ti \in {Undef, Str(<<"B","u","g">>)},
                      te \in {Undef, Str(<<"e","n","g">>), Str(<<"n","o","p","e">>)},
                      b \in {Undef, Str(<<"t","x","t">>)}}]
    \cup [command : {"search"}, positional : {<<>>, <<<<"a","u","t","h">>, <<"b","u","g">>>>},
          flags : {[NoFlags EXCEPT !.team = te, !.assignee = a, !.token = tk] :
                      te \in {Undef, Str(<<"E","N","G">>), Str(<<"n","o","p","e">>)},
                      a \in {Undef, Str(TxtMe)},
                      tk \in {Undef, Str(<<"t","o","k">>)}}]
    \cup [command : {"teams", "help", "-h", "me", "bogus"}, positional : {<<>>}, flags : {NoFlags}]
    \cup [command : {"get"}, positional : {<<>>, <<<<"e","n","g","-","1">>>>, <<<<"E","N","G","-","9">>>>}, flags : {NoFlags}]
    \cup [command : {"comment"},
          positional : {<<>>, <<<<"e","n","g","-","1">>>>, <<<<"e","n","g","-","1">>, <<"l","o","o","k","s">>, <<"g","o","o","d">>>>, <<<<"E","N","G","-","9">>, <<"o","k">>>>},
          flags : {NoFlags, [NoFlags EXCEPT !.body = Str(<<"f","r","o","m"," ","f","l","a","g">>)]}]
    \cup [command : {"graphql"}, positional : {<<>>, <<<<"{">>, <<"v","i","e","w","e","r"," ","{"," ","i","d"," ","}">>, <<"}">>>>},
          flags : {NoFlags}]
    \cup [command : {"update"}, positional : {<<<<"e","n","g","-","1">>>>},
          flags : {[NoFlags EXCEPT !.priority = Str(pr)] : pr \in {<<"9">>, <<"-","1">>, <<"h","i","g","h">>, <<"2","x">>}}]
    \cup [command : {"create"}, positional : {<<>>},
          flags : {[NoFlags EXCEPT !.title = Str(<<"B","u","g">>), !.team = Str(<<"e","n","g">>),
                                   !.priority = Str(pr)] : pr \in {<<"9">>, <<"4">>}}]
    \cup [command : {"search"}, positional : {<<>>},
          flags : {[NoFlags EXCEPT !.priority = Str(<<"7">>)]}]

\* The pure-function harnesses at rest
GqNoCall == [pc |-> "idle", query |-> <<>>, variables |-> <<>>, sent |-> 0]
GqIdle == gqToken = Undef /\ gqCall = GqNoCall /\ gqWire = <<>> /\ gqLog = <<>>

PnIdle == pnIn = Undef /\ pnOut = <<>>

TkNone == [token |-> Undef, tokenCmd |-> Undef, linear |-> Undef, env |-> <<>>]
TkOff == [pc |-> "off", token |-> Undef, stderr |-> <<>>]
TkIdle == tkIn = TkNone /\ tkOut = TkOff

\* The environments a process starts in: no token at all, LINEAR_API_TOKEN,
\* or only another LINEAR*_API_TOKEN. getApiToken (linear-core.ts 6-8) reads
\* LINEAR_API_TOKEN
ProcEnvs ==
    { TkNone,
      [TkNone EXCEPT !.linear = Str(<<"t","e">>)],
      [TkNone EXCEPT !.env = <<[key |-> <<"L","I","N","E","A","R","_","W","O","R","K","_","A","P","I","_","T","O","K","E","N">>, value |-> <<"t","w">>]>>] }

InitEnv ==
    /\ tkIn \in ProcEnvs
    /\ tkOut = TkOff
    /\ gqToken = tkIn.linear
    /\ gqCall = GqNoCall /\ gqWire = <<>> /\ gqLog = <<>>

RidIdle == [kind |-> "none", pre |-> <<>>, seg |-> <<>>, code |-> <<>>, post |-> <<>>]
RsIdle == [teams |-> <<>>, teamId |-> "", stateName |-> <<>>]

NoStats == [fetches |-> 0, values |-> {}]

\* The calls that returned in a step: those logged beyond the first n
Count(calls, n, acc) ==
    [fetches |-> Cardinality({i \in (n + 1)..Len(calls) :
                                 calls[i].acc = acc /\ calls[i].fetched}),
     values |-> {calls[i].val : i \in {j \in (n + 1)..Len(calls) : calls[j].acc = acc}}]

Counted(stats, calls, n) ==
    [acc \in {"teams", "viewer"} |->
        [fetches |-> stats[acc].fetches + Count(calls, n, acc).fetches,
         values |-> stats[acc].values \cup Count(calls, n, acc).values]]

InFlight(k) == k.pc \notin {"idle", "done"}
Quiet == \A u \in Tasks : tasks[u].pc = "idle"

InitProc ==
    /\ cachedViewer = <<>>
    /\ cachedTeams = <<>>
    /\ remote = RemoteInit
    /\ tasks = [t \in 0..MaxTasks |-> IdleTask]
    /\ accStats = [acc \in {"teams", "viewer"} |-> NoStats]

\* A step of task t that leaves task k behind and touches no cache
Step(t, k) ==
    /\ tasks' = [tasks EXCEPT ![t] = k]
    /\ accStats' = Counted(accStats, k.calls, Len(tasks[t].calls))

\* index.ts 10-14: without a token the server prints to stderr and exits;
\* 23: await buildToolDescription() before the tool is registered
Startup ==
    /\ mode = "server"
    /\ tasks[0].pc = "idle"
    /\ Step(0, IF ~Truthy(gqToken)
               THEN Return([tasks[0] EXCEPT !.action = "startup"], "tokenRequired",
                           <<"L","i","n","e","a","r"," ","A","P","I"," ","t","o","k","e","n"," ","r","e","q","u","i","r","e","d"," ","(","s","e","t"," ","L","I","N","E","A","R","_","A","P","I","_","T","O","K","E","N"," ","o","r"," ","a","n","y"," ","L","I","N","E","A","R","*","_","A","P","I","_","T","O","K","E","N"," ","e","n","v","i","r","o","n","m","e","n","t"," ","v","a","r","i","a","b","l","e",")">>)
               ELSE IF CacheHit(cachedTeams)
               THEN DescriptionOnTeams(Called(tasks[0], "teams", cachedTeams[1], FALSE),
                                       cachedTeams[1])
               ELSE Send([tasks[0] EXCEPT !.action = "startup"], "teams", "startup.teams"))
    /\ UNCHANGED <<mode, cachedViewer, cachedTeams, remote, ridVars, rsVars, gqVars, pnVars, tkVars>>

ServerReady == mode = "server" /\ tasks[0].pc = "done" /\ tasks[0].result[1].kind = "description"

\* The comments of the issue and those on their way to it
CommentsAhead ==
    Len(remote.comments)
    + Cardinality({u \in Tasks : tasks[u].action = "comment" /\ InFlight(tasks[u])})

\* The issues created and the create requests on their way
CreatedAhead ==
    remote.created
    + Cardinality({u \in Tasks : tasks[u].action = "create" /\ InFlight(tasks[u])})

\* index.ts 30-41: the tool handler runs dispatchAction up to its first await
Serve(t, req) ==
    /\ ServerReady
    /\ tasks[t].pc = "idle"
    /\ req.action = "comment" => CommentsAhead < MaxComments
    /\ req.action = "create" => CreatedAhead < MaxCreated
    /\ tasks' = [tasks EXCEPT ![t] = toolHandler(req, cachedTeams, cachedViewer)]
    /\ accStats' = Counted(accStats, tasks'[t].calls, 0)
    /\ UNCHANGED <<mode, cachedViewer, cachedTeams, remote, ridVars, rsVars, gqVars, pnVars, tkVars>>

\* A request that arrives after every earlier one was answered
StartRequest == \E req \in Requests : Quiet /\ Serve(1, req)

\* Likewise, from the requests of every tag
StartToolRequest == \E req \in ToolRequests : Quiet /\ Serve(1, req)

\* A request that arrives at any time
StartOverlapping(t) == \E req \in OverlappingRequests : Serve(t, req)

\* The result was handed back; the slot serves the next request
Finish(t) ==
    /\ mode = "server"
    /\ tasks[t].pc = "done"
    /\ tasks' = [tasks EXCEPT ![t] = IdleTask]
    /\ UNCHANGED <<mode, cachedViewer, cachedTeams, remote, accStats, ridVars, rsVars, gqVars, pnVars, tkVars>>

\* cli.ts main: the one command of the process
StartCli ==
    \E c \in CliCommands :
        /\ mode = "cli"
        /\ tasks[1].pc = "idle"
        /\ c.command = "comment" => CommentsAhead < MaxComments
        /\ c.command = "create" => CreatedAhead < MaxCreated
        /\ LET run == main(c, tkIn, cachedTeams, cachedViewer)
               ready == run.resolved # <<>> /\ run.resolved[1].pc = "ready"
           IN /\ tasks' = [tasks EXCEPT ![1] = run.task]
              /\ tkOut' = IF run.resolved # <<>> THEN run.resolved[1] ELSE tkOut
              /\ gqToken' = IF ready THEN setApiToken(run.resolved[1].token) ELSE gqToken
        /\ accStats' = Counted(accStats, tasks'[1].calls, 0)
        /\ UNCHANGED <<mode, cachedViewer, cachedTeams, remote, ridVars, rsVars, pnVars, tkIn,
                       gqCall, gqWire, gqLog>>

\* getViewer 85-87 on the response of the viewer query
RecvViewer(t) ==
    LET v == RemoteViewer(remote.viewerVer)
        k == Called(tasks[t], "viewer", v, TRUE)
    IN /\ tasks[t].pc \in {"search.viewer", "update.viewer"}
       /\ cachedViewer' = <<v>>
       /\ Step(t, IF tasks[t].pc = "search.viewer"
                  THEN SearchWithViewer([k EXCEPT !.viewer = <<v>>], cachedTeams)
                  ELSE UpdateFinish([k EXCEPT !.input = SetKey(@, "assigneeId", Id(v.id))]))
       /\ UNCHANGED <<mode, cachedTeams, remote, ridVars, rsVars, gqVars, pnVars, tkVars>>

\* getTeams 93-107 on the response of the teams query
RecvTeams(t) ==
    LET v == RemoteTeams(remote.teamsVer)
        k == Called(tasks[t], "teams", v, TRUE)
    IN /\ tasks[t].pc \in {"startup.teams", "search.teams", "update.teams",
                           "create.teams", "teams.teams"}
       /\ cachedTeams' = <<v>>
       /\ Step(t, CASE tasks[t].pc = "startup.teams" -> DescriptionOnTeams(k, v)
                    [] tasks[t].pc = "search.teams" -> SearchWithTeams(k, v)
                    [] tasks[t].pc = "update.teams" ->
                          UpdateStateWithTeams(k, v, cachedViewer)
                    [] tasks[t].pc = "create.teams" -> CreateWithTeams(k, v)
                    [] tasks[t].pc = "teams.teams" -> CliTeamsWithTeams(k, v))
       /\ UNCHANGED <<mode, cachedViewer, remote, ridVars, rsVars, gqVars, pnVars, tkVars>>

\* The response of the issue query of handleUpdate, handleGet, handleComment
RecvIssue(t) ==
    /\ tasks[t].pc \in {"update.issue", "get.issue", "comment.issue"}
    /\ Step(t, CASE tasks[t].pc = "update.issue" ->
                       UpdateOnIssue(tasks[t], cachedTeams, cachedViewer)
                 [] tasks[t].pc = "get.issue" -> GetOnIssue(tasks[t], remote)
                 [] tasks[t].pc = "comment.issue" -> CommentOnIssue(tasks[t]))
    /\ UNCHANGED <<mode, cachedViewer, cachedTeams, remote, ridVars, rsVars, gqVars, pnVars, tkVars>>

\* The response of the users query of handleUpdate
RecvUsers(t) ==
    /\ tasks[t].pc = "update.users"
    /\ Step(t, UpdateOnUsers(tasks[t]))
    /\ UNCHANGED <<mode, cachedViewer, cachedTeams, remote, ridVars, rsVars, gqVars, pnVars, tkVars>>

\* The service applies issueUpdate and answers
RecvIssueUpdate(t) ==
    LET after == ApplyIssueUpdate(remote.issue, tasks[t].mutation[1].input)
    IN /\ tasks[t].pc = "update.mutation"
       /\ remote' = [remote EXCEPT !.issue = after]
       /\ Step(t, UpdateOnMutation([tasks[t] EXCEPT
                     !.effect = <<[before |-> remote.issue, after |-> after]>>],
                     [remote EXCEPT !.issue = after]))
       /\ UNCHANGED <<mode, cachedViewer, cachedTeams, ridVars, rsVars, gqVars, pnVars, tkVars>>

\* The service applies issueCreate and answers
RecvIssueCreate(t) ==
    /\ tasks[t].pc = "create.mutation"
    /\ remote' = [remote EXCEPT !.created = @ + 1]
    /\ Step(t, CreateOnMutation(tasks[t], RemoteCreated(remote, tasks[t].mutation[1].input)))
    /\ UNCHANGED <<mode, cachedViewer, cachedTeams, ridVars, rsVars, gqVars, pnVars, tkVars>>

\* The service applies commentCreate and answers
RecvCommentCreate(t) ==
    /\ tasks[t].pc = "comment.mutation"
    /\ remote' = [remote EXCEPT !.comments = Append(@, tasks[t].mutation[1].body)]
    /\ Step(t, CommentOnMutation(tasks[t]))
    /\ UNCHANGED <<mode, cachedViewer, cachedTeams, ridVars, rsVars, gqVars, pnVars, tkVars>>

\* The response of the caller's own query
RecvData(t) ==
    /\ tasks[t].pc = "graphql.query"
    /\ Step(t, GraphqlOnData(tasks[t]))
    /\ UNCHANGED <<mode, cachedViewer, cachedTeams, remote, ridVars, rsVars, gqVars, pnVars, tkVars>>

\* The response of the issues or searchIssues query of handleSearch
RecvIssues(t) ==
    /\ tasks[t].pc \in {"search.issues", "search.text"}
    /\ Step(t, SearchOnIssues(tasks[t], remote))
    /\ UNCHANGED <<mode, cachedViewer, cachedTeams, remote, ridVars, rsVars, gqVars, pnVars, tkVars>>

\* The messages of json.errors in a failed response
ErrorLists ==
    { <<<<"E","n","t","i","t","y"," ","n","o","t"," ","f","o","u","n","d">>>>,
      <<<<"R","a","t","e"," ","l","i","m","i","t","e","d">>, <<"T","r","y"," ","l","a","t","e","r">>>> }

\* graphql 28-30: the response carries errors; the throw unwinds the handler
\* to the adapter (index.ts 37-40, cli.ts 260-264, or the top level at startup)
RecvError(t) ==
    \E errs \in ErrorLists :
        /\ InFlight(tasks[t])
        /\ Step(t, Thrown([tasks[t] EXCEPT !.errors = <<errs>>], Join(errs, <<"\n">>)))
        /\ UNCHANGED <<mode, cachedViewer, cachedTeams, remote, ridVars, rsVars, gqVars, pnVars, tkVars>>

\* Someone edits the viewer's profile or a team's workflow in Linear
RemoteChange ==
    /\ mode # "off"
    /\ remote.teamsVer + remote.viewerVer < MaxChurn
    /\ \/ remote' = [remote EXCEPT !.teamsVer = @ + 1]
       \/ remote' = [remote EXCEPT !.viewerVer = @ + 1]
    /\ UNCHANGED <<mode, cachedViewer, cachedTeams, tasks, accStats, ridVars, rsVars, gqVars, pnVars, tkVars>>

Responses ==
    \E t \in 0..MaxTasks :
        \/ RecvViewer(t)
        \/ RecvTeams(t)
        \/ RecvIssue(t)
        \/ RecvUsers(t)
        \/ RecvIssueUpdate(t)
        \/ RecvIssueCreate(t)
        \/ RecvIssues(t)
        \/ RecvError(t)

\* The responses to handleComment's mutation and handleGraphql's query
ToolResponses ==
    \E t \in 0..MaxTasks :
        \/ RecvCommentCreate(t)
        \/ RecvData(t)

\* One request at a time: a command-line run, or a server whose host waits
\* for each result
Init ==
    /\ InitProc
    /\ mode \in {"server", "cli"}
    /\ ridIn = RidIdle /\ ridOut = <<>>
    /\ rsIn = RsIdle /\ rsOut = <<>>
    /\ InitEnv
    /\ PnIdle

Next ==
    \/ Startup
    \/ StartRequest
    \/ StartCli
    \/ \E t \in Tasks : Finish(t)
    \/ Responses
    \/ ToolResponses
    \/ RemoteChange

Spec == Init /\ [][Next]_vars

\* One request at a time, from the requests of every tag
NextTool ==
    \/ Startup
    \/ StartToolRequest
    \/ StartCli
    \/ \E t \in Tasks : Finish(t)
    \/ Responses
    \/ ToolResponses
    \/ RemoteChange

SpecTool == Init /\ [][NextTool]_vars

\* The persistent server with requests that overlap
InitServer ==
    /\ InitProc
    /\ mode = "server"
    /\ ridIn = RidIdle /\ ridOut = <<>>
    /\ rsIn = RsIdle /\ rsOut = <<>>
    /\ InitEnv
    /\ PnIdle

NextServer ==
    \/ Startup
    \/ \E t \in Tasks : StartOverlapping(t)
    \/ \E t \in Tasks : Finish(t)
    \/ Responses
    \/ RemoteChange

SpecServer == InitServer /\ [][NextServer]_vars

-----------------------------------------------------------------------------
(* Inputs of the resolveId harness                                          *)

MaxCodeLen == 4

CodeAlphabet == {"a", "B", "7", "-"}

RECURSIVE SeqsUpTo(_, _)
SeqsUpTo(S, n) ==
    IF n = 0 THEN {<<>>}
    ELSE LET shorter == SeqsUpTo(S, n - 1)
         IN shorter \cup {Append(s, c) : s \in {t \in shorter : Len(t) = n - 1}, c \in S}

CodeTexts == SeqsUpTo(CodeAlphabet, MaxCodeLen) \ {<<>>}

\* What precedes "/issue/" in a URL-shaped input
UrlPrefixes == {
    <<"h","t","t","p","s",":","/","/","l","i","n","e","a","r",".","a","p","p","/","w","s">>,
    <<"l","i","n","e","a","r",".","a","p","p","/","w">>,
    <<"h","t","t","p","s",":","/","/","L","i","n","e","a","r",".","A","P","P","/","W","s">>,
    <<"h","t","t","p","s",":","/","/","l","i","n","e","a","r",".","a","p","p","/","a","/","b">>,
    <<"h","t","t","p","s",":","/","/","l","i","n","e","a","r",".","a","p","p">>,
    <<"h","t","t","p","s",":","/","/","l","i","n","e","a","r","x","a","p","p","/","w","s">>,
    <<"h","t","t","p",":","/","/","e","x",".","c","o","/","w","s">> }

IssueSegs == { <<"/","i","s","s","u","e","/">>, <<"/","I","s","s","u","e","/">> }

UrlSuffixes == { <<>>, <<"/","f","i","x","-","7">> }

RidInputs ==
    [kind : {"raw"}, pre : {<<>>}, seg : {<<>>}, code : CodeTexts, post : {<<>>}]
    \cup [kind : {"url"}, pre : UrlPrefixes, seg : IssueSegs, code : CodeTexts,
          post : UrlSuffixes]

RidText(r) == r.pre \o r.seg \o r.code \o r.post

InitId ==
    /\ ridIn \in RidInputs
    /\ ridOut = <<>>
    /\ rsIn = RsIdle
    /\ rsOut = <<>>
    /\ GqIdle
    /\ PnIdle
    /\ TkIdle
    /\ mode = "off"
    /\ InitProc

\* Apply resolveId to the input, then to its own result
ResolveIdCall ==
    /\ ridIn.kind # "none"
    /\ Len(ridOut) < 2
    /\ ridOut' = Append(ridOut,
                        resolveId(IF ridOut = <<>> THEN RidText(ridIn)
                                  ELSE ridOut[Len(ridOut)]))
    /\ UNCHANGED <<ridIn, rsVars, gqVars, pnVars, tkVars, procVars>>

NextId == ResolveIdCall

SpecId == InitId /\ [][NextId]_vars

-----------------------------------------------------------------------------
(* Inputs of the resolveState harness                                       *)

MaxStates == 4

\* Sequences of at most n distinct elements of S
RECURSIVE DistinctSeqs(_, _)
DistinctSeqs(S, n) ==
    IF n = 0 THEN {<<>>}
    ELSE LET shorter == DistinctSeqs(S, n - 1)
         IN shorter \cup UNION {{Append(s, c) : c \in S \ Range(s)} :
                                   s \in {t \in shorter : Len(t) = n - 1}}

StateCatalogs == DistinctSeqs(Range(StatePool), MaxStates) \ {<<>>}

StateQueries == {
    <<"d","o","n","e">>, <<"D","o","n","e">>, <<"i","n"," ","p","r","o","g">>,
    <<"w","o","n","t","f","i","x">>, <<"w","i","p">>, <<"t","o","d","o">>,
    <<"p","r","o","g">>, <<"s","t","a","r","t","e","d">>,
    <<"C","A","N","C","E","L","L","E","D">>, <<"n","o","p","e">> }

HarnessTeam(states) ==
    [id |-> "T1", key |-> <<"E","N","G">>,
     name |-> <<"E","n","g","i","n","e","e","r","i","n","g">>, states |-> states]

RsInputs ==
    [teams : {<<HarnessTeam(c)>> : c \in StateCatalogs}, teamId : {"T1", "T9"},
     stateName : StateQueries]

InitState ==
    /\ rsIn \in RsInputs
    /\ rsOut = <<>>
    /\ ridIn = RidIdle
    /\ ridOut = <<>>
    /\ GqIdle
    /\ PnIdle
    /\ TkIdle
    /\ mode = "off"
    /\ InitProc

\* Call resolveState(teamId, stateName) against the cached teams; the return
\* statement taken is recorded beside the result.
ResolveStateCall ==
    /\ rsIn.teams # <<>>
    /\ rsOut = <<>>
    /\ rsOut' = <<[id |-> resolveState(rsIn.teams, rsIn.teamId, rsIn.stateName),
                   tier |-> IF rsIn.teamId = rsIn.teams[1].id
                            THEN StateMatch(rsIn.teams[1].states, rsIn.stateName).tier
                            ELSE 0]>>
    /\ UNCHANGED <<rsIn, ridVars, gqVars, pnVars, tkVars, procVars>>

NextState == ResolveStateCall

SpecState == InitState /\ [][NextState]_vars

-----------------------------------------------------------------------------
(* Harness for graphql (linear-core.ts 11-33)                               *)

MaxCalls == 3
MaxCliCalls == 2

\* What process.env.LINEAR_API_TOKEN can hold
GqTokens == { Undef, Str(<<>>), Str(<<"l","i","n","_","k">>) }

GqQueries == { <<"{","v","i","e","w","e","r","}">>, <<"{","t","e","a","m","s","}">> }
GqVariables == { <<>>, <<"i","d">> }

\* What the awaited fetch and response.json() can come to: a body with data,
\* a body with errors (an empty array is still truthy at line 28), or a
\* rejection of the fetch itself
GqResponses ==
    { [kind |-> "data", errors |-> <<>>, message |-> <<>>] }
    \cup { [kind |-> "errors", errors |-> e, message |-> <<>>] : e \in ErrorLists \cup {<<>>} }
    \cup { [kind |-> "rejected", errors |-> <<>>, message |-> <<"f","e","t","c","h"," ","f","a","i","l","e","d">>] }

\* A graphql that sends the request again behind the first
OutboundTwice(token, query, variables) ==
    IF ~Truthy(token) THEN <<>>
    ELSE << [authorization |-> token, query |-> query, variables |-> variables],
            [authorization |-> token, query |-> query, variables |-> variables] >>

\* 12-24: the requests one call hands to fetch
Outbound(token, query, variables) ==
    IF ~Truthy(token) THEN <<>>
    ELSE << [authorization |-> token, query |-> query, variables |-> variables] >>

\* 13-15: the error of a call without a token
TokenRequired ==
    [kind |-> "threw", message |-> <<"L","I","N","E","A","R","_","A","P","I","_","T","O","K","E","N"," ","e","n","v","i","r","o","n","m","e","n","t"," ","v","a","r","i","a","b","l","e"," ","i","s"," ","r","e","q","u","i","r","e","d">>]

\* 26-32, and the rejection that passes through the awaits
GqOutcome(resp) ==
    CASE resp.kind = "data" -> [kind |-> "returned", message |-> <<>>]
      [] resp.kind = "errors" -> [kind |-> "threw", message |-> Join(resp.errors, <<"\n">>)]
      [] OTHER -> [kind |-> "threw", message |-> resp.message]

GqEntry(call, sent, outcome) ==
    [query |-> call.query, variables |-> call.variables, sent |-> sent,
     wireAfter |-> Len(gqWire) + sent - call.sent, outcome |-> outcome]

InitGraphql ==
    /\ gqToken \in GqTokens
    /\ gqCall = GqNoCall
    /\ gqWire = <<>>
    /\ gqLog = <<>>
    /\ PnIdle
    /\ TkIdle
    /\ ridIn = RidIdle /\ ridOut = <<>>
    /\ rsIn = RsIdle /\ rsOut = <<>>
    /\ mode = "off"
    /\ InitProc

\* graphql(query, variables) up to its first await
GraphqlCall ==
    \E query \in GqQueries, variables \in GqVariables :
        LET out == Outbound(gqToken, query, variables)
            call == [pc |-> "awaiting", query |-> query, variables |-> variables,
                     sent |-> Len(out)]
        IN /\ gqCall.pc = "idle"
           /\ tkOut.pc \in {"off", "ready"}
           /\ Len(gqLog) < (IF tkOut.pc = "off" THEN MaxCalls ELSE MaxCliCalls)
           /\ gqWire' = gqWire \o out
           /\ IF out = <<>>
              THEN /\ gqCall' = GqNoCall
                   /\ gqLog' = Append(gqLog, GqEntry(call, 0, TokenRequired))
              ELSE /\ gqCall' = call
                   /\ UNCHANGED gqLog
           /\ UNCHANGED <<gqToken, ridVars, rsVars, pnVars, tkVars, procVars>>

\* The awaited response arrives and the call returns or throws
GraphqlSettle ==
    \E resp \in GqResponses :
        /\ gqCall.pc = "awaiting"
        /\ gqLog' = Append(gqLog, GqEntry(gqCall, gqCall.sent, GqOutcome(resp)))
        /\ gqCall' = GqNoCall
        /\ UNCHANGED <<gqToken, gqWire, ridVars, rsVars, pnVars, tkVars, procVars>>

NextGraphql == GraphqlCall \/ GraphqlSettle

SpecGraphql == InitGraphql /\ [][NextGraphql]_vars

-----------------------------------------------------------------------------
(* Harness for the token of a command-line run (cli.ts 93-146)              *)

EnvLists ==
    { <<>>,
      << [key |-> <<"G","I","T","H","U","B","_","A","P","I","_","T","O","K","E","N">>, value |-> <<"g","h">>],
         [key |-> <<"L","I","N","E","A","R","_","W","O","R","K","_","A","P","I","_","T","O","K","E","N">>, value |-> <<"t","w">>] >>,
      << [key |-> <<"L","I","N","E","A","R","_","W","O","R","K","_","A","P","I","_","T","O","K","E","N">>, value |-> <<>>],
         [key |-> <<"L","I","N","E","A","R","_","A","P","I","_","T","O","K","E","N","S">>, value |-> <<"t","x">>],
         [key |-> <<"L","I","N","E","A","R","_","H","O","M","E","_","A","P","I","_","T","O","K","E","N">>, value |-> <<"t","h">>] >> }

\* The flags after parseArgs (a flag without a value is null), what the
\* token command would do, and the environment
TkInputs ==
    [token : {Undef, Null, Str(<<"t","f">>)},
     tokenCmd : {Undef, TokenCommand(TRUE, <<>>), TokenCommand(FALSE, <<"\f"," ","t","c","\n">>),
                 TokenCommand(FALSE, <<"\n">>)},
     linear : {Undef, Str(<<>>), Str(<<"t","e">>)},
     env : EnvLists]

InitCliToken ==
    /\ tkIn \in TkInputs
    /\ tkOut = [TkOff EXCEPT !.pc = "start"]
    /\ gqToken = tkIn.linear
    /\ gqCall = GqNoCall
    /\ gqWire = <<>>
    /\ gqLog = <<>>
    /\ PnIdle
    /\ ridIn = RidIdle /\ ridOut = <<>>
    /\ rsIn = RsIdle /\ rsOut = <<>>
    /\ mode = "off"
    /\ InitProc

\* main 141-146: resolve the token, give up without one, or set it
CliResolveToken ==
    LET out == TokenOutcome(tkIn)
    IN /\ tkOut.pc = "start"
       /\ tkOut' = out
       /\ gqToken' = IF out.pc = "ready" THEN setApiToken(out.token) ELSE gqToken
       /\ UNCHANGED <<tkIn, gqCall, gqWire, gqLog, pnVars, ridVars, rsVars, procVars>>

NextCliToken == CliResolveToken \/ GraphqlCall \/ GraphqlSettle

SpecCliToken == InitCliToken /\ [][NextCliToken]_vars

-----------------------------------------------------------------------------
(* Harness for priorityName (linear-core.ts 62-64)                          *)

MaxProbe == 60

\* The integers handed to priorityName
PnInputs == {Num(n) : n \in (0 - MaxProbe)..MaxProbe}

InitPriority ==
    /\ pnIn \in PnInputs
    /\ pnOut = <<>>
    /\ GqIdle
    /\ TkIdle
    /\ ridIn = RidIdle /\ ridOut = <<>>
    /\ rsIn = RsIdle /\ rsOut = <<>>
    /\ mode = "off"
    /\ InitProc

PriorityNameCall ==
    /\ pnIn.tag = "number"
    /\ pnOut = <<>>
    /\ pnOut' = <<priorityName(pnIn)>>
    /\ UNCHANGED <<pnIn, tkVars, gqVars, ridVars, rsVars, procVars>>

NextPriority == PriorityNameCall

SpecPriority == InitPriority /\ [][NextPriority]_vars

-----------------------------------------------------------------------------
(* Claims about resolveId (checked under SpecId)                            *)

\* The short-code pattern ^[A-Za-z]+-[0-9]+$ of the claims, stated as a split
\* of the string: letters, one dash, digits.
ShortCodeForm(s) ==
    \E e \in 1..Len(s) :
        /\ \A k \in 1..e : IsLetterC(s[k])
        /\ e + 2 <= Len(s)
        /\ s[e + 1] = "-"
        /\ \A k \in (e + 2)..Len(s) : IsDigitC(s[k])

\* s contains linear.app/<workspace>/issue/<letters>-<digits>
IssueUrlForm(s) ==
    \E p \in 1..Len(s) :
        /\ LitAt(s, p, HostLit, TRUE)
        /\ \E q \in (p + Len(HostLit))..Len(s) :
              /\ \A k \in (p + Len(HostLit))..q : s[k] # "/"
              /\ LitAt(s, q + 1, IssueLit, TRUE)
              /\ \E e \in (q + 1 + Len(IssueLit))..Len(s) :
                    /\ \A k \in (q + 1 + Len(IssueLit))..e : IsLetterC(s[k])
                    /\ e + 2 <= Len(s)
                    /\ s[e + 1] = "-"
                    /\ IsDigitC(s[e + 2])

\* pre ends with linear.app/<workspace>: what precedes /issue/ in a Linear URL
LinearPrefix(pre) ==
    \E p \in 1..Len(pre) :
        /\ LitAt(pre, p, HostLit, TRUE)
        /\ p + Len(HostLit) <= Len(pre)
        /\ \A k \in (p + Len(HostLit))..Len(pre) : pre[k] # "/"

\* C1 (as claimed): for a Linear issue URL .../issue/<code>, with the code in
\* any casing, resolveId returns exactly the code, uppercased.  The code
\* returns capture group 1 as written in the URL.
C1_UrlCodeUppercased ==
    (/\ ridIn.kind = "url"
     /\ LinearPrefix(ridIn.pre)
     /\ ShortCodeForm(ridIn.code)
     /\ Len(ridOut) >= 1)
        => ridOut[1] = toUpperCase(ridIn.code)

\* C2: for every input matching ^[A-Za-z]+-[0-9]+$, resolveId returns the
\* input uppercased and nothing else changed.
C2_ShortCodeUppercased ==
    (ShortCodeForm(RidText(ridIn)) /\ Len(ridOut) >= 1)
        => ridOut[1] = toUpperCase(RidText(ridIn))

C2_Witness ==
    /\ ridIn.kind = "raw"
    /\ ridIn.code = <<"a", "B", "-", "7">>
    /\ Len(ridOut) >= 1
    /\ ridOut[1] = <<"A", "B", "-", "7">>

\* C3: an input that is neither a short code nor an issue URL is returned
\* unchanged, and resolving the result again returns it unchanged too.
C3_OtherInputUnchanged ==
    (~ShortCodeForm(RidText(ridIn)) /\ ~IssueUrlForm(RidText(ridIn)))
        => /\ Len(ridOut) >= 1 => ridOut[1] = RidText(ridIn)
           /\ Len(ridOut) >= 2 => ridOut[2] = ridOut[1]

C3_Witness ==
    /\ ridIn.kind = "url"
    /\ ridIn.code = <<"a", "-", "7">>
    /\ ~IssueUrlForm(RidText(ridIn))
    /\ Len(ridOut) = 2
    /\ ridOut[2] = RidText(ridIn)

-----------------------------------------------------------------------------
(* Claims about resolveState (checked under SpecState)                      *)

RsStates == rsIn.teams[1].states
RsLower == toLowerCase(rsIn.stateName)
RsCalled == rsOut # <<>> /\ rsIn.teamId = rsIn.teams[1].id

NameIs(st, text) == toLowerCase(st.name) = text
NameHas(st, text) == includes(toLowerCase(st.name), text)

\* st would be found by the alias lookup for the query
AliasHit(st, lower) ==
    \E b \in 1..Len(Aliases) :
        lower \in Aliases[b].alts /\ NameHas(st, Aliases[b].canonical)

\* C4: when the team's catalog has a state whose name equals the query
\* case-insensitively, resolveState returns that state's id, also when an
\* earlier entry of the catalog matches by substring or alias.
C4_ExactMatchWins ==
    (RsCalled /\ \E i \in 1..Len(RsStates) : NameIs(RsStates[i], RsLower))
        => \E i \in 1..Len(RsStates) :
              NameIs(RsStates[i], RsLower) /\ rsOut[1].id = RsStates[i].id

C4_Witness ==
    /\ RsCalled
    /\ \E i, j \in 1..Len(RsStates) :
          /\ i < j
          /\ ~NameIs(RsStates[i], RsLower)
          /\ NameHas(RsStates[i], RsLower) \/ AliasHit(RsStates[i], RsLower)
          /\ NameIs(RsStates[j], RsLower)
          /\ rsOut[1].id = RsStates[j].id

QDone == <<"d","o","n","e">>
QInProg == <<"i","n"," ","p","r","o","g">>
QWontfix == <<"w","o","n","t","f","i","x">>
NDone == <<"D","o","n","e">>
NInProgress == <<"I","n"," ","P","r","o","g","r","e","s","s">>
NCanceled == <<"C","a","n","c","e","l","e","d">>

HasStateNamed(name) == \E i \in 1..Len(RsStates) : RsStates[i].name = name
IdOfStateNamed(name) ==
    RsStates[CHOOSE i \in 1..Len(RsStates) : RsStates[i].name = name].id

HasThreeStates ==
    HasStateNamed(NDone) /\ HasStateNamed(NInProgress) /\ HasStateNamed(NCanceled)

\* No state other than Done, In Progress and Canceled has a name containing
\* one of the three queries or "canceled"
NoOtherCandidate ==
    \A i \in 1..Len(RsStates) :
        RsStates[i].name \in {NDone, NInProgress, NCanceled}
        \/ \A text \in {QDone, QInProg, QWontfix, toLowerCase(NCanceled)} :
              ~NameHas(RsStates[i], text)

\* C5 (as claimed): against a catalog containing Done, In Progress and
\* Canceled, the queries "done", "in prog" and "wontfix" each resolve through
\* the alias lookup (the third return) to the respective state.
C5_AllViaAliasTier ==
    (RsCalled /\ HasThreeStates /\ NoOtherCandidate)
        => /\ rsIn.stateName = QDone =>
                rsOut[1] = [id |-> IdOfStateNamed(NDone), tier |-> 3]
           /\ rsIn.stateName = QInProg =>
                rsOut[1] = [id |-> IdOfStateNamed(NInProgress), tier |-> 3]
           /\ rsIn.stateName = QWontfix =>
                rsOut[1] = [id |-> IdOfStateNamed(NCanceled), tier |-> 3]

\* C5 (amended): the three queries resolve to the respective states, "done"
\* by the exact lookup, "in prog" by the partial lookup and only "wontfix" by
\* the alias lookup, when no other state's name contains a query or "canceled".
C5_ResolvesByTier ==
    (RsCalled /\ HasThreeStates /\ NoOtherCandidate)
        => /\ rsIn.stateName = QDone =>
                rsOut[1] = [id |-> IdOfStateNamed(NDone), tier |-> 1]
           /\ rsIn.stateName = QInProg =>
                rsOut[1] = [id |-> IdOfStateNamed(NInProgress), tier |-> 2]
           /\ rsIn.stateName = QWontfix =>
                rsOut[1] = [id |-> IdOfStateNamed(NCanceled), tier |-> 3]

C5_Witness ==
    /\ RsCalled
    /\ HasThreeStates
    /\ NoOtherCandidate
    /\ Len(RsStates) = 4
    /\ rsIn.stateName = QWontfix
    /\ rsOut[1] = [id |-> "S3", tier |-> 3]

-----------------------------------------------------------------------------
(* Claims about handleUpdate and handleCreate (checked under Spec)          *)

Occurrences(seq, x) == Cardinality({i \in DOMAIN seq : seq[i] = x})

Started(k) == k.pc # "idle"

\* The command-line run ended at cli.ts 141-145, before its command
NoToken(k) == k.pc = "done" /\ k.result[1].kind = "noToken"
Done(k) == k.pc = "done"
Kind(k) == k.result[1].kind
Text(k) == k.result[1].text

\* The request names a priority and neither a state nor an assignee
OnlyPriority(k) ==
    /\ k.action = "update"
    /\ k.p.priority.tag # "undefined"
    /\ ~Truthy(k.p.state)
    /\ k.p.assignee.tag = "undefined"

\* C6: an update that supplies only priority, once its issue is found,
\* submits a mutation whose input holds the priority key alone, with the
\* supplied number (null where the command line's flag was no number); the
\* service's issue keeps its state and assignee across that mutation and
\* takes the priority sent.
C6_PriorityOnlyFrame ==
    \A t \in Tasks :
        LET k == tasks[t]
            asSent == IF k.p.priority.tag = "number" THEN k.p.priority ELSE Null
        IN OnlyPriority(k) =>
              /\ k.issue # <<>> => k.mutation # <<>>
              /\ k.mutation # <<>> =>
                    /\ DOMAIN k.mutation[1].input = {"priority"}
                    /\ k.mutation[1].input["priority"] = asSent
              /\ k.effect # <<>> =>
                    /\ k.effect[1].after.stateId = k.effect[1].before.stateId
                    /\ k.effect[1].after.assigneeId = k.effect[1].before.assigneeId
                    /\ k.effect[1].after.priority = asSent

C6_Witness ==
    \E t \in Tasks :
        /\ OnlyPriority(tasks[t])
        /\ tasks[t].p.priority = Num(0)
        /\ Done(tasks[t])
        /\ Kind(tasks[t]) = "updated"
        /\ tasks[t].effect # <<>>
        /\ tasks[t].effect[1].before.priority # Num(0)
        /\ tasks[t].effect[1].before.stateId # Id("S4")

\* What the request supplies, and whether it can be resolved
SuppliesState(k) == Truthy(k.p.state)
SuppliesEmail(k) == k.p.assignee.tag = "string" /\ k.p.assignee.s # TxtMe
SuppliesNothing(k) ==
    ~Truthy(k.p.state) /\ k.p.priority.tag = "undefined" /\ k.p.assignee.tag = "undefined"
IssueMissing(k) == k.p.id.tag = "string" /\ ~RemoteIssueFound(resolveId(k.p.id.s))
TeamsSeen(k) == {k.calls[i].val : i \in {j \in DOMAIN k.calls : k.calls[j].acc = "teams"}}
StateUnresolved(k) ==
    SuppliesState(k) /\ \A v \in 0..MaxChurn :
                            resolveState(RemoteTeams(v), IssueTeamId, k.p.state.s) = NULL
UsersWithEmail(k) ==
    {i \in DOMAIN RemoteUsers :
        toLowerCase(RemoteUsers[i].email) = toLowerCase(k.p.assignee.s)}
EmailUnresolved(k) == SuppliesEmail(k) /\ UsersWithEmail(k) = {}

Explanations == {"issueNotFound", "stateNotFound", "userNotFound", "noUpdates", "usage"}

\* C7: an update sends issueUpdate at most once; when it sends it, the issue
\* was found, a supplied state is in the input as the id it resolves to
\* against teams the update got, a supplied email is in the input as the id
\* of a user with that email, and some field was supplied.  When the issue
\* is missing, the state or the email resolves to nothing, or no field is
\* supplied, no issueUpdate is sent; and an update that ends without one and
\* without a thrown error returns a non-empty explanation.  (A command-line
\* run that ended for want of a token has started no update.)
C7_MutationOnlyWhenResolved ==
    \A t \in Tasks :
        LET k == tasks[t]
            input == k.mutation[1].input
        IN k.action = "update" /\ Started(k) /\ ~NoToken(k) =>
              /\ Occurrences(k.sent, "issueUpdate") <= 1
              /\ Occurrences(k.sent, "issueUpdate") = 1 =>
                    /\ k.issue # <<>>
                    /\ RemoteIssueFound(resolveId(k.p.id.s))
                    /\ ~SuppliesNothing(k)
                    /\ SuppliesState(k) =>
                          /\ "stateId" \in DOMAIN input
                          /\ \E teams \in TeamsSeen(k) :
                                /\ resolveState(teams, IssueTeamId, k.p.state.s) # NULL
                                /\ input["stateId"] =
                                      Id(resolveState(teams, IssueTeamId, k.p.state.s))
                    /\ SuppliesEmail(k) =>
                          /\ "assigneeId" \in DOMAIN input
                          /\ \E i \in UsersWithEmail(k) :
                                input["assigneeId"] = Id(RemoteUsers[i].id)
              /\ IssueMissing(k) \/ StateUnresolved(k) \/ EmailUnresolved(k)
                    \/ SuppliesNothing(k) =>
                    Occurrences(k.sent, "issueUpdate") = 0
              /\ Done(k) /\ Occurrences(k.sent, "issueUpdate") = 0 /\ Kind(k) # "error" =>
                    /\ Kind(k) \in Explanations
                    /\ Text(k) # <<>>
              /\ Done(k) /\ Kind(k) = "issueNotFound" => IssueMissing(k)
              /\ Done(k) /\ Kind(k) = "stateNotFound" =>
                    \E teams \in TeamsSeen(k) :
                        resolveState(teams, IssueTeamId, k.p.state.s) = NULL
              /\ Done(k) /\ Kind(k) = "userNotFound" => EmailUnresolved(k)
              /\ Done(k) /\ Kind(k) = "noUpdates" => SuppliesNothing(k)

\* An update that supplied nothing usable was refused after earlier updates
\* had set all three fields
C7_Witness ==
    /\ mode = "server"
    /\ tasks[1].action = "update" /\ Done(tasks[1]) /\ Kind(tasks[1]) = "noUpdates"
    /\ tasks[1].p.state = Str(<<>>)
    /\ remote.issue.stateId = Id("S1")
    /\ remote.issue.assigneeId = Id("V1")
    /\ remote.issue.priority = Num(3)

\* No cached team has the reference as its key or its name, whatever the case
TeamUnmatched(teams, ref) ==
    \A i \in DOMAIN teams :
        /\ toLowerCase(teams[i].key) # toLowerCase(ref)
        /\ toLowerCase(teams[i].name) # toLowerCase(ref)

\* C8: a create whose team reference matches no cached team key or name has
\* ended with a result that lists every cached team's key and name, and has
\* sent no issueCreate.
C8_UnknownTeamListsTeams ==
    \A t \in Tasks :
        LET k == tasks[t]
        IN /\ k.action = "create" /\ Truthy(k.p.title) /\ Truthy(k.p.team)
           /\ cachedTeams # <<>>
           /\ TeamUnmatched(cachedTeams[1], k.p.team.s)
           => /\ Done(k)
              /\ Kind(k) = "teamNotFound"
              /\ \A i \in DOMAIN cachedTeams[1] :
                    /\ includes(Text(k), cachedTeams[1][i].key)
                    /\ includes(Text(k), cachedTeams[1][i].name)
              /\ Occurrences(k.sent, "issueCreate") = 0

C8_Witness ==
    \E t \in Tasks :
        /\ tasks[t].action = "create"
        /\ Done(tasks[t])
        /\ Kind(tasks[t]) = "teamNotFound"
        /\ tasks[t].p.team = Str(<<"n","o","p","e">>)
        /\ Len(cachedTeams[1]) = 2

-----------------------------------------------------------------------------
(* Claims about the reference data cache                                    *)

Accessors == {"teams", "viewer"}

\* A query of the accessor goes out in this step
QueryIssued(acc) ==
    \E t \in 0..MaxTasks :
        Occurrences(tasks'[t].sent, acc) > Occurrences(tasks[t].sent, acc)

\* The accessor calls that return in this step
Returning(acc) ==
    UNION {{tasks'[t].calls[i].val :
               i \in {j \in (Len(tasks[t].calls) + 1)..Len(tasks'[t].calls) :
                         tasks'[t].calls[j].acc = acc}} : t \in 0..MaxTasks}

\* C9 (requests served one after the other): once a getTeams call has
\* returned, no later getTeams call sends a query and every later call
\* returns the value the first returned; so of the calls that return, at
\* most one fetched.  Likewise for getViewer.
C9_SecondCallServedFromCache ==
    [][\A acc \in Accessors :
          /\ accStats[acc].values # {} =>
                /\ ~QueryIssued(acc)
                /\ accStats'[acc].values = accStats[acc].values
          /\ Cardinality(accStats'[acc].values) <= 1
          /\ accStats'[acc].fetches <= 1]_vars

\* A later call was served the first value after the service's data changed
C9_Witness ==
    /\ accStats["teams"].fetches = 1
    /\ accStats["viewer"].fetches = 1
    /\ \E t \in Tasks : \E i \in DOMAIN tasks[t].calls :
          /\ tasks[t].calls[i].acc = "teams"
          /\ ~tasks[t].calls[i].fetched
          /\ tasks[t].calls[i].val # RemoteTeams(remote.teamsVer)

\* C10 (requests that overlap): once a cache entry is set it keeps its value,
\* and every accessor call that returns afterwards returns that value.
C10_CacheEntryNeverReplaced ==
    [][/\ cachedViewer # <<>> =>
             /\ cachedViewer' = cachedViewer
             /\ Returning("viewer") \subseteq {cachedViewer[1]}
       /\ cachedTeams # <<>> =>
             /\ cachedTeams' = cachedTeams
             /\ Returning("teams") \subseteq {cachedTeams[1]}]_vars

-----------------------------------------------------------------------------
(* Claims about validation and dispatch (checked under SpecTool)            *)

KnownTags == {"search", "get", "update", "comment", "create", "graphql", "help"}

\* The command line knows the seven tags and "teams"
UnknownTag(k) ==
    IF mode = "cli" THEN k.action \notin KnownTags \cup {"teams", "--help", "-h"}
    ELSE k.action \notin KnownTags

NoNetwork(k) == k.sent = <<>> /\ k.calls = <<>> /\ k.mutation = <<>>

\* C11: a request whose action tag is not a known tag has ended at once,
\* rejected by the schema (server) or as an unknown command (command line;
\* for want of a token where none was at hand), without a query sent or an
\* accessor called.
C11_UnknownTagRejected ==
    \A t \in Tasks :
        LET k == tasks[t]
        IN Started(k) /\ UnknownTag(k) =>
              /\ Done(k)
              /\ IF mode = "cli" THEN Kind(k) \in {"unknownCommand", "noToken"}
                 ELSE Kind(k) = "invalid"
              /\ mode = "cli" /\ tkOut.pc = "ready" => Kind(k) = "unknownCommand"
              /\ NoNetwork(k)

C11_Witness ==
    /\ mode = "server"
    /\ tasks[1].action = "bogus"
    /\ tasks[1].p.id = IdGood
    /\ Done(tasks[1])
    /\ remote.comments # <<>>

\* C12: in the server a request tagged "me" is accepted and answered by a
\* handler: it does not end rejected.
C12_MeIsAnAction ==
    \A t \in Tasks :
        mode = "server" /\ tasks[t].action = "me" /\ Done(tasks[t]) =>
            Kind(tasks[t]) \notin {"invalid", "error"}

\* The field the tag requires is absent or empty
Missing(v) == ~Truthy(v)
MissingRequired(k) ==
    \/ k.action \in {"get", "update", "comment"} /\ Missing(k.p.id)
    \/ k.action = "comment" /\ Missing(k.p.body)
    \/ k.action = "create" /\ (Missing(k.p.title) \/ Missing(k.p.team))
    \/ k.action = "graphql" /\ Missing(k.p.graphql)

Rejections == {"error", "usage", "invalid", "noToken"}

\* C13: a request that lacks a field its tag requires (id for get, update and
\* comment; body for comment; title and team for create; graphql for
\* graphql) has ended with an error text, without a query sent or an accessor
\* called; in the server the text names the field and the action.
C13_MissingFieldRejected ==
    \A t \in Tasks :
        LET k == tasks[t]
        IN Started(k) /\ MissingRequired(k) =>
              /\ Done(k)
              /\ Kind(k) \in Rejections
              /\ NoNetwork(k)
              /\ includes(Text(k), <<"E","r","r","o","r",":"," ">>) \/ Kind(k) = "invalid"
              /\ Kind(k) = "error" =>
                    /\ includes(Text(k), <<" ","i","s"," ","r","e","q","u","i","r","e","d"," ","f","o","r"," ">> \o TagText[k.action] \o <<" ","a","c","t","i","o","n">>)
                    /\ k.errors = <<>>

C13_Witness ==
    /\ mode = "server"
    /\ tasks[1].action = "comment"
    /\ tasks[1].p.id = IdGood
    /\ tasks[1].p.body = Str(<<>>)
    /\ Done(tasks[1])
    /\ Text(tasks[1]) = <<"E","r","r","o","r",":"," ","b","o","d","y"," ","i","s"," ","r","e","q","u","i","r","e","d"," ","f","o","r"," ","c","o","m","m","e","n","t"," ","a","c","t","i","o","n">>

InRange(v) == v.tag = "number" /\ v.n >= 0 /\ v.n <= 4

\* C14: on both entry paths no handler is started with a priority outside
\* 0..4, no mutation input holds one and no search filter holds one.
C14_PriorityInRange ==
    \A t \in Tasks :
        LET k == tasks[t]
        IN /\ k.sent # <<>> /\ k.p.priority.tag # "undefined" => InRange(k.p.priority)
           /\ k.action \in {"update", "create"} /\ k.mutation # <<>>
                 /\ "priority" \in DOMAIN k.mutation[1].input =>
                 InRange(k.mutation[1].input["priority"])
           /\ \A i \in DOMAIN k.filter :
                 k.filter[i].field = "priority.eq" => InRange(k.filter[i].value)

\* C16: a task whose response carried an error list has ended with the
\* adapter's text "Error: " followed by all the messages joined by newlines;
\* the failed query is the last it sent, and from then on it sends nothing.
C16_RemoteErrorSurfaces ==
    /\ [](\A t \in Tasks :
            LET k == tasks[t]
            IN k.errors # <<>> =>
                  /\ Done(k)
                  /\ Kind(k) = "error"
                  /\ Text(k) = <<"E","r","r","o","r",":"," ">> \o Join(k.errors[1], <<"\n">>)
                  /\ k.sent # <<>>)
    /\ [][\A t \in Tasks :
             tasks[t].errors # <<>> => tasks'[t] = tasks[t] \/ tasks'[t] = IdleTask]_vars

C16_Witness ==
    \E t \in Tasks :
        /\ tasks[t].action = "comment"
        /\ Len(tasks[t].errors) = 1
        /\ Len(tasks[t].errors[1]) = 2
        /\ tasks[t].sent = <<"issue", "commentCreate">>
        /\ remote.comments = <<>>

\* C17: a get or a comment whose issue lookup was answered "no such issue"
\* has ended with the returned text "Issue <id> not found", the id as the
\* caller wrote it; a comment on a missing issue never sends commentCreate.
C17_MissingIssueReturned ==
    \A t \in Tasks :
        LET k == tasks[t]
        IN k.action \in {"get", "comment"} /\ Started(k) /\ ~MissingRequired(k)
              /\ IssueMissing(k) =>
              /\ Occurrences(k.sent, "commentCreate") = 0
              /\ Done(k) /\ k.errors = <<>> =>
                    /\ Kind(k) = "issueNotFound"
                    /\ Text(k) = <<"I","s","s","u","e"," ">> \o k.p.id.s \o <<" ","n","o","t"," ","f","o","u","n","d">>
                    /\ k.sent = <<"issue">>

C17_Witness ==
    \E t \in Tasks :
        /\ tasks[t].action = "comment"
        /\ tasks[t].p.id = IdMissing
        /\ Done(tasks[t])
        /\ Kind(tasks[t]) = "issueNotFound"
        /\ tasks[t].sent = <<"issue">>
        /\ tasks[t].p.body = Str(<<"o","k">>)

-----------------------------------------------------------------------------
(* Claims about handleSearch (checked under Spec)                           *)

FilterSearch(k) == k.action = "search" /\ k.p.query.tag = "object"
TextSearch(k) == k.action = "search" /\ k.p.query.tag = "string" /\ Truthy(k.p.query)
DefaultSearch(k) == k.action = "search" /\ ~Truthy(k.p.query)

\* C18: a search whose filter names a team that matches no cached team sends
\* no issues query, and ends with a result that names the cached teams.
C18_UnknownTeamNotDropped ==
    \A t \in Tasks :
        LET k == tasks[t]
        IN /\ FilterSearch(k) /\ Truthy(k.p.query.o.team)
           /\ cachedTeams # <<>>
           /\ TeamUnmatched(cachedTeams[1], k.p.query.o.team.s)
           => /\ Occurrences(k.sent, "issues") = 0
              /\ Done(k) /\ k.errors = <<>> =>
                    \A i \in DOMAIN cachedTeams[1] :
                        includes(Text(k), cachedTeams[1][i].key)

\* Whether the issue list names the issue
Lists(k, identifier) == includes(Text(k), <<"*","*">> \o identifier \o <<"*","*">>)

\* C19: a search with no query sends the issues query with exactly two
\* clauses, assignee id = the viewer's id and state type not in (completed,
\* canceled); its result lists an issue if and only if the issue is assigned
\* to the viewer and its state is neither completed nor canceled: ENG-2
\* (viewer, Todo) is listed, ENG-3 (viewer, Done) and OPS-4 (another user,
\* Todo) are not.
C19_DefaultSearchFilter ==
    \A t \in Tasks :
        LET k == tasks[t]
        IN DefaultSearch(k) /\ Occurrences(k.sent, "issues") > 0 =>
              /\ k.viewer # <<>>
              /\ k.filter = << [field |-> "assignee.id.eq", value |-> Id(k.viewer[1].id)],
                               [field |-> "state.type.nin",
                                value |-> Arr(<<"completed", "canceled">>)] >>
              /\ k.viewer[1].id = "V1"
              /\ Done(k) /\ k.errors = <<>> =>
                    /\ Kind(k) = "issueList"
                    /\ Lists(k, <<"E","N","G","-","2">>)
                    /\ ~Lists(k, <<"E","N","G","-","3">>)
                    /\ ~Lists(k, <<"O","P","S","-","4">>)
                    /\ Lists(k, IssueIdentifier) <=>
                          /\ remote.issue.assigneeId = Id("V1")
                          /\ remote.issue.stateId # Id("S1")

\* Default searches have listed the addressed issue and have left it out
C19_Witness ==
    /\ mode = "server"
    /\ DefaultSearch(tasks[1])
    /\ Done(tasks[1])
    /\ Kind(tasks[1]) = "issueList"
    /\ Lists(tasks[1], IssueIdentifier)
    /\ Lists(tasks[1], <<"E","N","G","-","2">>)
    /\ remote.issue.priority = Num(0)

\* The search names the current user
FiltersOnMe(k) == FilterSearch(k) /\ k.p.query.o.assignee = Str(TxtMe)

\* C20: a free-text search, and a filter search without assignee "me", sends
\* no viewer query.
C20_ViewerFetchedOnlyWhenNeeded ==
    \A t \in Tasks :
        LET k == tasks[t]
        IN TextSearch(k) \/ (FilterSearch(k) /\ ~FiltersOnMe(k)) =>
              Occurrences(k.sent, "viewer") = 0

-----------------------------------------------------------------------------
(* Claims about graphql (checked under SpecGraphql)                         *)

\* C15: every call of graphql made with a token present has sent exactly one
\* request, whatever the response was, and the requests sent in all are one
\* per such call; every call made without a token has thrown
\* "LINEAR_API_TOKEN environment variable is required" and has sent none.
C15_OneRequestPerCall ==
    /\ \A i \in DOMAIN gqLog :
          IF Truthy(gqToken)
          THEN gqLog[i].sent = 1 /\ gqLog[i].wireAfter = i
          ELSE /\ gqLog[i].sent = 0 /\ gqLog[i].wireAfter = 0
               /\ gqLog[i].outcome = TokenRequired
    /\ Len(gqWire) = IF Truthy(gqToken)
                     THEN Len(gqLog) + (IF gqCall.pc = "awaiting" THEN 1 ELSE 0)
                     ELSE 0
    /\ \A i \in DOMAIN gqWire : gqWire[i].authorization = gqToken

\* A call with a token has thrown the service's errors after one request,
\* and a later call has been made
C15_Witness ==
    /\ Truthy(gqToken)
    /\ Len(gqLog) >= 2
    /\ gqLog[1].outcome.kind = "threw"
    /\ gqLog[1].outcome.message = <<"E","n","t","i","t","y"," ","n","o","t"," ","f","o","u","n","d">>
    /\ Len(gqWire) = Len(gqLog)

-----------------------------------------------------------------------------
(* Claims about the assignee of an update (checked under Spec)              *)

\* The update got as far as its assignee: the issue was found and a supplied
\* state resolved
ReachedAssignee(k) ==
    /\ k.action = "update"
    /\ k.issue # <<>>
    /\ SuppliesState(k) => "stateId" \in DOMAIN k.input

\* C21: in an update that reaches its assignee step, assignee "me" puts the
\* cached viewer's id into the mutation input; assignee null puts an
\* assigneeId of null into it, and the mutation is sent although nothing
\* else was supplied; any other string sends the users query, a user whose
\* email equals it without regard to case gives the assigneeId, and when
\* there is none the update returns a result that names the email and sends
\* no mutation.
C21_AssigneeByCase ==
    \A t \in Tasks :
        LET k == tasks[t]
            a == k.p.assignee
            input == k.mutation[1].input
        IN ReachedAssignee(k) =>
              /\ a = Str(TxtMe) /\ k.mutation # <<>> =>
                    /\ cachedViewer # <<>>
                    /\ input["assigneeId"] = Id(cachedViewer[1].id)
                    /\ Occurrences(k.sent, "users") = 0
              /\ a = Null =>
                    /\ k.pc = "update.mutation" \/ Done(k)
                    /\ k.mutation # <<>>
                    /\ input["assigneeId"] = Null
                    /\ Occurrences(k.sent, "users") = 0
                    /\ Occurrences(k.sent, "viewer") = 0
                    /\ Done(k) => Kind(k) \in {"updated", "error"}
              /\ SuppliesEmail(k) =>
                    /\ Occurrences(k.sent, "users") = 1
                    /\ Occurrences(k.sent, "viewer") = 0
                    /\ k.mutation # <<>> =>
                          \E i \in UsersWithEmail(k) :
                              input["assigneeId"] = Id(RemoteUsers[i].id)
                    /\ Done(k) /\ k.errors = <<>> =>
                          IF UsersWithEmail(k) = {}
                          THEN /\ Kind(k) = "userNotFound"
                               /\ includes(Text(k), a.s)
                               /\ k.mutation = <<>>
                          ELSE Kind(k) = "updated"
              /\ a.tag = "undefined" /\ k.mutation # <<>> =>
                    "assigneeId" \notin DOMAIN input

\* An email written in capitals was matched to the user and the service
\* took the assignee
C21_Witness ==
    \E t \in Tasks :
        /\ ReachedAssignee(tasks[t])
        /\ tasks[t].p.assignee = Str(<<"B","O","B","@","x",".","i","o">>)
        /\ Done(tasks[t]) /\ Kind(tasks[t]) = "updated"
        /\ tasks[t].mutation[1].input["assigneeId"] = Id("U2")
        /\ remote.issue.assigneeId = Id("U2")

-----------------------------------------------------------------------------
(* Claims about handleComment's echo (checked under SpecTool)               *)

EchoHead == <<"A","d","d","e","d"," ","c","o","m","m","e","n","t"," ","t","o"," ">> \o IssueIdentifier \o <<":", "\n", ">", " ">>

\* C22: a comment sends its whole body in the commentCreate mutation, and
\* the service stores the whole body; the result is the heading followed,
\* for a body of more than 100 characters, by its first 100 characters and
\* "...", and for a body of at most 100 characters by the body and nothing
\* more.
C22_EchoTruncatedAt100 ==
    \A t \in Tasks :
        LET k == tasks[t]
            body == k.p.body.s
            h == Len(EchoHead)
        IN k.action = "comment" /\ Started(k) =>
              /\ k.mutation # <<>> => k.mutation[1].body = body
              /\ Done(k) /\ Kind(k) = "commented" =>
                    /\ SubSeq(Text(k), 1, h) = EchoHead
                    /\ remote.comments[Len(remote.comments)] = body
                    /\ IF Len(body) > 100
                       THEN /\ Len(Text(k)) = h + 103
                            /\ \A i \in 1..100 : Text(k)[h + i] = body[i]
                            /\ \A i \in 101..103 : Text(k)[h + i] = "."
                       ELSE /\ Len(Text(k)) = h + Len(body)
                            /\ \A i \in 1..Len(body) : Text(k)[h + i] = body[i]

\* A body of 101 characters was stored whole and echoed shortened
C22_Witness ==
    \E t \in Tasks :
        /\ tasks[t].action = "comment"
        /\ tasks[t].p.body = Str(Body101)
        /\ Done(tasks[t]) /\ Kind(tasks[t]) = "commented"
        /\ Len(Text(tasks[t])) = Len(EchoHead) + 103
        /\ remote.comments # <<>>
        /\ remote.comments[1] = Body101

-----------------------------------------------------------------------------
(* Claims about priorityName (checked under SpecPriority)                   *)

\* C23: priorityName returns "No priority" for 0, "Urgent" for 1, "High" for
\* 2, "Medium" for 3 and "Low" for 4, and it returns "Unknown" for every
\* other integer.
C23_PriorityLabels ==
    pnOut # <<>> =>
        pnOut[1] = CASE pnIn.n = 0 -> <<"N","o"," ","p","r","i","o","r","i","t","y">>
                     [] pnIn.n = 1 -> <<"U","r","g","e","n","t">>
                     [] pnIn.n = 2 -> <<"H","i","g","h">>
                     [] pnIn.n = 3 -> <<"M","e","d","i","u","m">>
                     [] pnIn.n = 4 -> <<"L","o","w">>
                     [] OTHER -> <<"U","n","k","n","o","w","n">>

\* The first integer past the table was given its label
C23_Witness == pnIn = Num(5) /\ pnOut = <<<<"U","n","k","n","o","w","n">>>>

-----------------------------------------------------------------------------
(* Claims about the token of a command-line run (checked under SpecCliToken) *)

NamedLinearToken(e) == startsWith(e.key, <<"L","I","N","E","A","R">>) /\ endsWith(e.key, <<"_","A","P","I","_","T","O","K","E","N">>)

NoneAvailable ==
    /\ ~Truthy(tkIn.token)
    /\ tkIn.tokenCmd = Undef
    /\ ~Truthy(tkIn.linear)
    /\ \A i \in DOMAIN tkIn.env : ~(NamedLinearToken(tkIn.env[i]) /\ tkIn.env[i].value # <<>>)

\* C25: every request a command-line run has sent carries the --token value
\* when one was given; else the trimmed output of the --token-cmd command
\* when one was given; else LINEAR_API_TOKEN when it is set; else the value
\* of an environment variable named LINEAR*_API_TOKEN.  With none of the four
\* the run has sent nothing, and once main has looked for the token it has
\* exited with an error message.
C25_CredentialByPrecedence ==
    /\ \A i \in DOMAIN gqWire :
          LET auth == gqWire[i].authorization
          IN IF Truthy(tkIn.token) THEN auth = tkIn.token
             ELSE IF tkIn.tokenCmd # Undef
             THEN ~tkIn.tokenCmd.fails /\ auth = Str(trim(tkIn.tokenCmd.stdout))
             ELSE IF Truthy(tkIn.linear) THEN auth = tkIn.linear
             ELSE \E j \in DOMAIN tkIn.env :
                     NamedLinearToken(tkIn.env[j]) /\ auth = Str(tkIn.env[j].value)
    /\ \A i \in DOMAIN gqWire : Truthy(gqWire[i].authorization)
    /\ NoneAvailable =>
          /\ gqWire = <<>>
          /\ tkOut.pc \in {"start", "exit1"}
          /\ tkOut.pc = "exit1" => tkOut.stderr # <<>>

\* With --token, a token command, LINEAR_API_TOKEN and LINEAR_WORK_API_TOKEN
\* all at hand, two requests went out with the --token value
C25_Witness ==
    /\ tkIn.token = Str(<<"t","f">>)
    /\ tkIn.tokenCmd = TokenCommand(FALSE, <<"\f"," ","t","c","\n">>)
    /\ tkIn.linear = Str(<<"t","e">>)
    /\ EnvPick(tkIn.env) # 0
    /\ Len(gqWire) = 2
    /\ gqWire[2].authorization = Str(<<"t","f">>)

-----------------------------------------------------------------------------
(* Claims about the command line (checked under Spec)                       *)

CliRun(k) == mode = "cli" /\ k.argv # <<>>
Flags(k) == k.argv[1].flags

\* --priority was given something other than an integer from 0 to 4
PriorityFlagOutOfRange(k) ==
    /\ k.argv[1].command \in {"update", "create", "search"}
    /\ Truthy(Flags(k).priority)
    /\ ParseInt(Flags(k).priority.s) \notin {Num(n) : n \in 0..4}

\* C24: a command-line run that has ended has exit code 1 and has written
\* to the error stream if no token was at hand, the command was unknown, a
\* required argument was missing, --priority was out of range, or the
\* service answered with errors; otherwise it has exit code 0 and has
\* written to standard output.
C24_ExitCodeAndStream ==
    \A t \in Tasks :
        LET k == tasks[t]
        IN CliRun(k) /\ Done(k) =>
              IF \/ Kind(k) \in {"noToken", "usage", "unknownCommand"}
                 \/ PriorityFlagOutOfRange(k)
                 \/ k.errors # <<>>
              THEN CliExit(k) = 1 /\ CliStream(k) = "stderr"
              ELSE CliExit(k) = 0 /\ CliStream(k) = "stdout"

\* No filter flag was given a value
NoFilterFlag(k) ==
    /\ Flags(k).state = Undef /\ Flags(k).assignee = Undef
    /\ Flags(k).priority = Undef /\ Flags(k).team = Undef

\* C26: a command-line search without a positional query and without
\* --state, --assignee, --priority and --team sends the issues query with the
\* default filter, assignee id = the viewer's id and state type not in
\* (completed, canceled), whatever other flags were given.
C26_CliDefaultSearch ==
    \A t \in Tasks :
        LET k == tasks[t]
        IN /\ CliRun(k) /\ k.argv[1].command = "search"
           /\ k.argv[1].positional = <<>> /\ NoFilterFlag(k)
           /\ Occurrences(k.sent, "issues") > 0
           => /\ k.viewer # <<>>
              /\ k.filter = << [field |-> "assignee.id.eq", value |-> Id(k.viewer[1].id)],
                               [field |-> "state.type.nin",
                                value |-> Arr(<<"completed", "canceled">>)] >>

\* C27: a command-line update whose mutation carries an assigneeId of null
\* was given --assignee with the value "null".
C27_UnassignOnlyOnLiteralNull ==
    \A t \in Tasks :
        LET k == tasks[t]
        IN /\ CliRun(k) /\ k.argv[1].command = "update"
           /\ k.mutation # <<>>
           /\ "assigneeId" \in DOMAIN k.mutation[1].input
           /\ k.mutation[1].input["assigneeId"] = Null
           => Flags(k).assignee = Str(<<"n","u","l","l">>)

-----------------------------------------------------------------------------
(* Claims about the input of a create (checked under Spec)                  *)

\* C28: the input of an issueCreate mutation holds title and teamId, the
\* team id being that of the team the request's team resolves to; it holds
\* description exactly when a body was supplied, priority exactly when a
\* priority was supplied, and a key for the labels exactly when labels were
\* supplied.
C28_CreateInputAsSupplied ==
    \A t \in Tasks :
        LET k == tasks[t]
            input == k.mutation[1].input
            known == {"title", "teamId", "description", "priority"}
        IN k.action = "create" /\ k.mutation # <<>> =>
              /\ {"title", "teamId"} \subseteq DOMAIN input
              /\ input["title"] = k.p.title
              /\ \E teams \in TeamsSeen(k) :
                    /\ resolveTeam(teams, k.p.team.s) # 0
                    /\ input["teamId"] = Id(teams[resolveTeam(teams, k.p.team.s)].id)
              /\ "description" \in DOMAIN input <=> Truthy(k.p.body)
              /\ "priority" \in DOMAIN input <=> k.p.priority.tag # "undefined"
              /\ (DOMAIN input \ known # {}) <=> k.p.labels.tag # "undefined"

====
